---- MODULE Spec2Model ----
(***************************************************************************)
(* A model of the sequent event projection engine: the in-memory topic     *)
(* substrate (InMemoryTopic, InMemoryConsumer, InMemoryMutex), the         *)
(* Envelope ack/nack protocol, the EventConsumer catch-up latch, the       *)
(* Migrator replication loop with EventType.producer, and the ReadModel    *)
(* ingestion scheduler (MultiConsumerIngestor / ConsumerIngestor).         *)
(*                                                                         *)
(* Every await of the TypeScript source is an interleaving point: a        *)
(* promise continuation, a timer callback and an abort listener are        *)
(* separate steps that the event loop may order in any way the guards      *)
(* allow.  Time is the value of Date.now(), advanced by Tick.  A consume   *)
(* may take any time to resolve: the Consumer interface promises no        *)
(* latency.  A topic keeps, with each raw event, the partition key given   *)
(* to produce, and hands it to the consumer in the envelope.               *)
(***************************************************************************)
EXTENDS Integers, Sequences, FiniteSets, TLC

VARIABLES
  cap,        \* the scenario explored: how many events, callers and clock ticks
  now,        \* Date.now()
  logs,       \* InMemoryTopic.#events, by topic name
  mutex,      \* InMemoryConsumer.#offset (an InMemoryMutex<number>), by consumer group
  ec,         \* EventConsumer state, by consumer index
  aborted,    \* AbortController.signal.aborted
  running,    \* Migrator.#running: 0 when unset, else the identity of the promise
  promises,   \* number of promises Migrator.run has created
  opened,     \* resources created by the body of Migrator.run
  mpc,        \* position of the body of Migrator.run
  envelope,   \* the Envelope the replication or ingestion loop holds
  outputs,    \* the messages transform yielded for it, not yet produced
  callers,    \* the callers of EventType.producer
  srcLenAtRun, \* length of the source topic when run created its promise
  direct,     \* whether an event was produced through a returned EventProducer
  rpc,        \* position of the ingestion loop of ReadModel.start
  pf,         \* ConsumerIngestor.#prefetched, by ingestor
  peeks,      \* the peeks of the current MultiConsumerIngestor.next, by ingestor
  peekTimer,  \* when the timeouts of those peeks expire
  chosen,     \* earliestIndex of the current next
  handled,    \* the handler invocations so far, in order, each with whether
              \* the signal had aborted when consume resolved to its envelope
  started,    \* per ingestor, the length of its topic when start was called
  rmReady,    \* whether the promise of ReadModel.start has resolved
  hook,       \* clientFactory.onCatchUp as called by start: "none" before the
              \* call, "running", then "done" or "failed"
  missed,     \* ingestors whose peek returned nothing while another was taken
  scope,      \* the AsyncDisposableStack of start, and what has been disposed
  clients,    \* the tasks consuming a topic directly, through one consumer group
  delivered,  \* per task, the envelopes InMemoryConsumer.consume resolved to,
              \* each with what the task and the envelope did since
  arg,        \* the arguments of the function under study
  res         \* what that function has returned or done so far

migVars == <<cap, running, promises, opened, mpc, outputs, callers,
             srcLenAtRun, direct>>
rmVars == <<rpc, pf, peeks, peekTimer, chosen, handled, started, rmReady, hook,
            missed, scope>>
topicVars == <<clients, delivered>>
pureVars == <<arg, res>>
vars == <<now, logs, mutex, ec, aborted, envelope, migVars, rmVars, topicVars,
          pureVars>>

----------------------------------------------------------------------------
(* Bounds of the model *)

MaxTicks == 2
TickMs == 1001
MaxSrc == 2
MaxRunCalls == 2

\* EventConsumer.#DEFAULT_CATCH_UP_DELAY
CatchUpDelayMs == 1000

\* Messages of the source type, and the message produced on the destination type
Msgs == 0 .. 2
DirectMsg == Cardinality(Msgs) + 4
NoTimer == -1
NoEnvelope == [present |-> FALSE]

----------------------------------------------------------------------------
(* Pure helpers *)

\* new Date(e.timestamp) in EventConsumer.consume: a Date object wrapping the
\* time value (every Date.now() value is an integer within the Date range, which
\* TimeClip keeps as it is).
ToDate(t) == [time |-> t]
\* Date.prototype.getTime
GetTime(d) == d.time

\* EventProducer.#keyer: the partition key derived from the event's id
\* (0 stands for null: no id).
Keyer(m) == m % 2

\* The user-supplied transform of a Migrator (Migrator.#migration); it may
\* yield no, one or several messages, or throw.
MigrationThrows(m) == m % 3 = 2
Migration(m) ==
  CASE m % 3 = 0 -> << >>
    [] m % 3 = 1 -> << m + 10, m + 20 >>
    [] OTHER -> << >>

RECURSIVE Concat(_)
Concat(ss) == IF ss = << >> THEN << >> ELSE Head(ss) \o Concat(Tail(ss))

Prefix(s, n) == SubSeq(s, 1, n)

----------------------------------------------------------------------------
(* InMemoryMutex: a chain of promises; get() waits for the previous guard.  *)
(* chain holds the tasks that called get(), oldest first (tasks are numbered *)
(* from 1); the head is the task whose `await oldPromise` can complete.     *)

MutexInit(initialState) == [state |-> initialState, chain |-> << >>]
MutexGet(m, task) == [m EXCEPT !.chain = Append(@, task)]
\* A mutex that grants every waiting task at once.
GrantedToAll(m, task) == m.chain # << >>
MutexGranted(m, task) == m.chain # << >> /\ Head(m.chain) = task
\* InMemoryMutexGuard[Symbol.asyncDispose]: release(this.state)
MutexRelease(m, newState) == [state |-> newState, chain |-> Tail(m.chain)]

\* The Acker built by InMemoryConsumer.consume.  ack advances the offset and
\* disposes the guard.  nack does nothing: the guard is referenced by the ack
\* closure alone, and Envelope never calls ack once nacked, so the guard of a
\* nacked envelope can no longer be released; Leaked marks it in the chain.
Leaked == 0
AckerAck(m) == MutexRelease(m, m.state + 1)
\* A nack that commits the offset as ack does.
AckerNackCommits(m) == MutexRelease(m, m.state + 1)
AckerNack(m) == [m EXCEPT !.chain = << Leaked >> \o Tail(@)]

----------------------------------------------------------------------------
(* Envelope *)

NewEnvelope(event, key) ==
  [present |-> TRUE, event |-> event, key |-> key, nacked |-> FALSE]
\* A nack that leaves #nacked unset.
EnvelopeNackForgets(env) == env
\* Envelope.nack: the effect on the envelope
EnvelopeNack(env) == [env EXCEPT !.nacked = TRUE]
\* asyncDispose that acks whether or not the envelope was nacked.
EnvelopeDisposeAlways(env, m) == AckerAck(m)
\* Envelope[Symbol.asyncDispose]: ack unless nacked
EnvelopeDispose(env, m) == IF env.nacked THEN m ELSE AckerAck(m)
\* Envelope.map with EventConsumer's mapping of RawEvent to Event
EnvelopeMap(env) ==
  [env EXCEPT !.event = [timestamp |-> ToDate(env.event.timestamp),
                         message |-> env.event.message]]

----------------------------------------------------------------------------
(* EventConsumer *)

\* calls counts the invocations of the user's onCatchUp, triggers those of
\* #catchUp.
EventConsumerInit ==
  [caughtUp |-> FALSE, timer |-> NoTimer, calls |-> 0, listening |-> FALSE,
   triggers |-> 0]

\* A reschedule that clears the timer and arms none.
RescheduleClearsOnly(c, t) == [c EXCEPT !.timer = NoTimer]

\* #rescheduleCatchUpDelay
RescheduleCatchUpDelay(c, t) ==
  [c EXCEPT !.timer = IF c.caughtUp THEN NoTimer ELSE t + CatchUpDelayMs]

\* #catchUp without the latch: every trigger calls onCatchUp.
CatchUpUnlatched(c) ==
  [c EXCEPT !.timer = NoTimer,
            !.caughtUp = TRUE,
            !.calls = @ + 1,
            !.triggers = @ + 1]

\* #catchUp: the latch, and the call of the user's onCatchUp
CatchUp(c) ==
  [c EXCEPT !.timer = NoTimer,
            !.caughtUp = TRUE,
            !.calls = IF c.caughtUp THEN @ ELSE @ + 1,
            !.triggers = @ + 1]

\* consume, up to the await of the inner consume
ConsumeStart(c, t, signalAborted) ==
  [RescheduleCatchUpDelay(c, t) EXCEPT !.listening = ~signalAborted]

\* consume, after the inner consume delivered a raw event
ConsumeDelivered(c, t, raw) ==
  LET c1 == [c EXCEPT !.listening = FALSE]
  IN IF t - raw.timestamp <= CatchUpDelayMs THEN CatchUp(c1) ELSE c1

----------------------------------------------------------------------------
(* The migration: source topic "src", destination topic "dst", one Migrator *)
(* and the callers of EventType.producer on the destination type.           *)

MigGroup == "src-dst"
\* The replication loop, as a task of the group's mutex
MigTask == 1

\* The read model takes no part in the migration scenarios.
RmUnused ==
  /\ rpc = "unused"
  /\ pf = << >>
  /\ peeks = << >>
  /\ peekTimer = NoTimer
  /\ chosen = 0
  /\ handled = << >>
  /\ started = << >>
  /\ rmReady = FALSE
  /\ hook = "unused"
  /\ missed = {}
  /\ scope = << >>

\* Nor do tasks that consume a topic directly.
TopicUnused ==
  /\ clients = << >>
  /\ delivered = << >>

\* No pure function is under study.
PureUnused ==
  /\ arg = << >>
  /\ res = << >>

Callers == 1 .. MaxRunCalls

\* Either many source events and one caller of EventType.producer, or many
\* concurrent callers and one source event.
Scenarios == {[src |-> MaxSrc, calls |-> 1, ticks |-> MaxTicks, events |-> 0],
              [src |-> 1, calls |-> MaxRunCalls, ticks |-> MaxTicks, events |-> 0]}

Init ==
  /\ cap \in Scenarios
  /\ now = 0
  /\ logs = [t \in {"src", "dst"} |-> << >>]
  /\ mutex = [g \in {MigGroup} |-> MutexInit(0)]
  /\ ec = [i \in {1} |-> EventConsumerInit]
  /\ aborted = FALSE
  /\ running = 0
  /\ promises = 0
  /\ opened = [consumers |-> 0, producers |-> 0, loops |-> 0]
  /\ mpc = "none"
  /\ envelope = NoEnvelope
  /\ outputs = << >>
  /\ callers = [c \in Callers |-> [st |-> "idle", promise |-> 0]]
  /\ srcLenAtRun = 0
  /\ direct = FALSE
  /\ RmUnused
  /\ TopicUnused
  /\ PureUnused

\* The clock advances.
Tick ==
  /\ now + TickMs <= cap.ticks * TickMs
  /\ now' = now + TickMs
  /\ UNCHANGED <<cap, logs, mutex, ec, aborted, running, promises, opened, mpc,
                 envelope, outputs, callers, srcLenAtRun, direct, rmVars,
                 topicVars, pureVars>>

\* InMemoryTopic.push
Push(topic, event) == [logs EXCEPT ![topic] = Append(@, event)]

\* get that counts offsets from the newest event.
TopicGetNewestFirst(log, offset) == log[Len(log) - offset]

\* InMemoryTopic.get, once the event at the offset exists
TopicGet(log, offset) == log[offset + 1]

\* EventProducer.produce on the source type: stamps Date.now(), derives the key.
SrcProduce(m) ==
  /\ Len(logs["src"]) < cap.src
  /\ logs' = Push("src", [timestamp |-> now, message |-> m, key |-> Keyer(m)])
  /\ UNCHANGED <<cap, now, mutex, ec, aborted, running, promises, opened, mpc,
                 envelope, outputs, callers, srcLenAtRun, direct, rmVars,
                 topicVars, pureVars>>

\* run without the #running guard: every call starts a new migration.
RunUnguarded ==
  /\ promises' = promises + 1
  /\ running' = promises + 1
  /\ mpc' = "scheduled"

\* Migrator.run: the #running guard, else the promise is created and stored
\* before the body runs.
Run ==
  IF running # 0
  THEN UNCHANGED <<running, promises, mpc>>
  ELSE /\ promises' = promises + 1
       /\ running' = promises + 1
       /\ mpc' = "scheduled"

\* EventType.producer: calls run on the migrator of the chain and awaits it.
ProducerCall(c) ==
  /\ c <= cap.calls
  /\ callers[c].st = "idle"
  /\ \A d \in Callers : d < c => callers[d].st # "idle"
  /\ Run
  /\ callers' = [callers EXCEPT ![c] = [st |-> "waiting", promise |-> running']]
  /\ srcLenAtRun' = IF running = 0 THEN Len(logs["src"]) ELSE srcLenAtRun
  /\ UNCHANGED <<cap, now, logs, mutex, ec, aborted, opened, envelope, outputs,
                 direct, rmVars, topicVars, pureVars>>

\* The promise of run is fulfilled once onCatchUp has been called.
RunFulfilled == running # 0 /\ ec[1].calls > 0

\* EventType.producer resumes after Promise.all and returns the EventProducer.
ProducerResolve(c) ==
  /\ callers[c].st = "waiting"
  /\ RunFulfilled
  /\ callers' = [callers EXCEPT ![c].st = "ready"]
  /\ UNCHANGED <<cap, now, logs, mutex, ec, aborted, running, promises, opened,
                 mpc, envelope, outputs, srcLenAtRun, direct, rmVars,
                 topicVars, pureVars>>

\* EventProducer.produce on the destination type, through a returned producer.
DstProduce(c) ==
  /\ callers[c].st = "ready"
  /\ ~direct
  /\ direct' = TRUE
  /\ logs' = Push("dst", [timestamp |-> now, message |-> DirectMsg,
                          key |-> Keyer(DirectMsg)])
  /\ UNCHANGED <<cap, now, mutex, ec, aborted, running, promises, opened, mpc,
                 envelope, outputs, callers, srcLenAtRun, rmVars, topicVars,
                 pureVars>>

\* Body of run: topics resolved, the named consumer group joined from the beginning.
MigOpenConsumer ==
  /\ mpc = "scheduled"
  /\ opened' = [opened EXCEPT !.consumers = @ + 1]
  /\ mpc' = "consumerOpen"
  /\ UNCHANGED <<cap, now, logs, mutex, ec, aborted, running, promises,
                 envelope, outputs, callers, srcLenAtRun, direct, rmVars,
                 topicVars, pureVars>>

\* Body of run: EventConsumer constructed, destination producer opened, loop entered.
MigOpenProducer ==
  /\ mpc = "consumerOpen"
  /\ opened' = [opened EXCEPT !.producers = @ + 1, !.loops = @ + 1]
  /\ mpc' = "loop"
  /\ UNCHANGED <<cap, now, logs, mutex, ec, aborted, running, promises,
                 envelope, outputs, callers, srcLenAtRun, direct, rmVars,
                 topicVars, pureVars>>

\* Loop head: leave when aborted, else call EventConsumer.consume, which calls
\* InMemoryConsumer.consume, which calls InMemoryMutex.get.
MigConsume ==
  /\ mpc = "loop"
  /\ IF aborted
     THEN /\ mpc' = "exited"
          /\ UNCHANGED <<ec, mutex>>
     ELSE /\ mpc' = "consuming"
          /\ ec' = [ec EXCEPT ![1] = ConsumeStart(@, now, aborted)]
          /\ mutex' = [mutex EXCEPT ![MigGroup] = MutexGet(@, MigTask)]
  /\ UNCHANGED <<cap, now, logs, aborted, running, promises, opened, envelope,
                 outputs, callers, srcLenAtRun, direct, rmVars, topicVars,
                 pureVars>>

\* InMemoryConsumer.consume resolves: the guard is held and InMemoryTopic.get
\* has the event at the guarded offset; EventConsumer.consume then resumes.
MigDeliver ==
  /\ mpc = "consuming"
  /\ MutexGranted(mutex[MigGroup], MigTask)
  /\ mutex[MigGroup].state < Len(logs["src"])
  /\ LET raw == TopicGet(logs["src"], mutex[MigGroup].state)
     IN /\ ec' = [ec EXCEPT ![1] = ConsumeDelivered(@, now, raw)]
        /\ envelope' = EnvelopeMap(NewEnvelope(raw, raw.key))
  /\ mpc' = "transform"
  /\ UNCHANGED <<cap, now, logs, mutex, aborted, running, promises, opened,
                 outputs, callers, srcLenAtRun, direct, rmVars, topicVars,
                 pureVars>>

\* this.#migration(envelope.event.message)
MigTransform ==
  /\ mpc = "transform"
  /\ IF MigrationThrows(envelope.event.message)
     THEN mpc' = "nack" /\ outputs' = << >>
     ELSE mpc' = "produce" /\ outputs' = Migration(envelope.event.message)
  /\ UNCHANGED <<cap, now, logs, mutex, ec, aborted, running, promises, opened,
                 envelope, callers, srcLenAtRun, direct, rmVars, topicVars,
                 pureVars>>

\* produce without the envelope's key.
ReplicaWithoutKey(env, message) ==
  [timestamp |-> GetTime(env.event.timestamp), message |-> message, key |-> 0]

\* The raw event the replication loop hands to destinationProducer.produce
Replica(env, message) ==
  [timestamp |-> GetTime(env.event.timestamp), message |-> message, key |-> env.key]

\* destinationProducer.produce for the next output, or the end of the for loop.
MigProduce ==
  /\ mpc = "produce"
  /\ IF outputs = << >>
     THEN mpc' = "dispose" /\ UNCHANGED <<logs, outputs>>
     ELSE /\ logs' = Push("dst", Replica(envelope, Head(outputs)))
          /\ outputs' = Tail(outputs)
          /\ mpc' = "produce"
  /\ UNCHANGED <<cap, now, mutex, ec, aborted, running, promises, opened,
                 envelope, callers, srcLenAtRun, direct, rmVars, topicVars,
                 pureVars>>

\* destinationProducer.produce rejects.
MigProduceFail ==
  /\ mpc = "produce"
  /\ outputs # << >>
  /\ mpc' = "nack"
  /\ UNCHANGED <<cap, now, logs, mutex, ec, aborted, running, promises, opened,
                 envelope, outputs, callers, srcLenAtRun, direct, rmVars,
                 topicVars, pureVars>>

\* catch: await envelope.nack()
MigNack ==
  /\ mpc = "nack"
  /\ envelope' = EnvelopeNack(envelope)
  /\ mutex' = [mutex EXCEPT ![MigGroup] = AckerNack(@)]
  /\ mpc' = "rethrow"
  /\ UNCHANGED <<cap, now, logs, ec, aborted, running, promises, opened,
                 outputs, callers, srcLenAtRun, direct, rmVars, topicVars,
                 pureVars>>

\* finally: await envelope[Symbol.asyncDispose](); after a failure the error
\* then leaves the async executor, whose promise nobody observes.
MigDispose ==
  /\ mpc \in {"dispose", "rethrow"}
  /\ mutex' = [mutex EXCEPT ![MigGroup] = EnvelopeDispose(envelope, @)]
  /\ envelope' = NoEnvelope
  /\ mpc' = IF mpc = "dispose" THEN "loop"
            ELSE IF ec[1].caughtUp THEN "failedLate" ELSE "failedEarly"
  /\ UNCHANGED <<cap, now, logs, ec, aborted, running, promises, opened,
                 outputs, callers, srcLenAtRun, direct, rmVars, topicVars,
                 pureVars>>

\* The timers that are set and whose callback still has an effect; the event
\* loop runs the callbacks of expired timers in the order of their deadlines.
ArmedTimers ==
  ({ec[i].timer : i \in DOMAIN ec}
     \cup (IF rpc = "peeking" /\ \E i \in DOMAIN peeks : peeks[i] = "pending"
           THEN {peekTimer} ELSE {}))
  \ {NoTimer}
TimerDue(deadline) ==
  /\ deadline # NoTimer
  /\ now >= deadline
  /\ \A d \in ArmedTimers : deadline <= d

\* The catch-up delay timer of an EventConsumer expires.
TimerFire(i) ==
  /\ TimerDue(ec[i].timer)
  /\ ec' = [ec EXCEPT ![i] = CatchUp(@)]
  /\ UNCHANGED <<cap, now, logs, mutex, aborted, running, promises, opened,
                 mpc, envelope, outputs, callers, srcLenAtRun, direct, rmVars,
                 topicVars, pureVars>>

\* EventProducer[Symbol.asyncDispose] of a returned producer: the inner
\* producer and every running migration are disposed.  The first
\* RunningMigration[Symbol.asyncDispose] aborts the controller, which runs the
\* abort listener of a consume in flight.
MigAbort(c) ==
  /\ callers[c].st = "ready"
  /\ callers' = [callers EXCEPT ![c].st = "disposed"]
  /\ aborted' = TRUE
  /\ ec' = [ec EXCEPT ![1] = IF ~aborted /\ @.listening THEN CatchUp(@) ELSE @]
  /\ UNCHANGED <<cap, now, logs, mutex, running, promises, opened, mpc,
                 envelope, outputs, srcLenAtRun, direct, rmVars, topicVars,
                 pureVars>>

Next ==
  \/ Tick
  \/ \E m \in Msgs : SrcProduce(m)
  \/ \E c \in Callers : ProducerCall(c)
  \/ \E c \in Callers : ProducerResolve(c)
  \/ \E c \in Callers : DstProduce(c)
  \/ MigOpenConsumer
  \/ MigOpenProducer
  \/ MigConsume
  \/ MigDeliver
  \/ MigTransform
  \/ MigProduce
  \/ MigProduceFail
  \/ MigNack
  \/ MigDispose
  \/ TimerFire(1)
  \/ \E c \in Callers : MigAbort(c)

Spec == Init /\ [][Next]_vars

----------------------------------------------------------------------------
(* ReadModel.start over the in-memory substrate: two ingestors on the      *)
(* topics "A" and "B", their EventConsumers, the MultiConsumerIngestor     *)
(* loop, and producers that append to the topics at any time.              *)

MaxEvents == 3

Ingestors == 1 .. 2
\* eventType.topicName()
TopicOf(i) == IF i = 1 THEN "A" ELSE "B"
\* ConsumerGroup.join(`${namespace}-${topicName}`)
GroupOf(i) == "rm-" \o TopicOf(i)

\* MultiConsumerIngestor.#timeoutMs, catchUpOptions.catchUpDelayMs being given
PeekTimeoutMs == (CatchUpDelayMs * 7) \div 10

NoPrefetch == [st |-> "none"]

\* The consumers that start opens, one for each ingestor
ConsumerOf(i) == "consumer-" \o TopicOf(i)

\* AsyncDisposableStack.use, and disposeAsync: the resources are disposed in
\* the reverse of the order in which they were added.
StackUse(stack, resource) == Append(stack, resource)
Reverse(q) == [k \in 1 .. Len(q) |-> q[Len(q) + 1 - k]]
StackDisposeAsync(sc) == [stack |-> << >>, disposed |-> sc.disposed \o Reverse(sc.stack)]

\* Either many events within a short time, or few events over a long time.
ScenariosRM == {[src |-> 0, calls |-> 0, ticks |-> 1, events |-> MaxEvents],
                [src |-> 0, calls |-> 0, ticks |-> MaxTicks, events |-> 2]}

\* The migration takes no part in the read-model scenarios.
MigUnused ==
  /\ running = 0
  /\ promises = 0
  /\ opened = [consumers |-> 0, producers |-> 0, loops |-> 0]
  /\ mpc = "unused"
  /\ outputs = << >>
  /\ callers = [c \in Callers |-> [st |-> "idle", promise |-> 0]]
  /\ srcLenAtRun = 0
  /\ direct = FALSE

InitRMOf(scenarios) ==
  /\ cap \in scenarios
  /\ MigUnused
  /\ TopicUnused
  /\ PureUnused
  /\ now = 0
  /\ logs = [t \in {TopicOf(i) : i \in Ingestors} |-> << >>]
  /\ mutex = [g \in {GroupOf(i) : i \in Ingestors} |-> MutexInit(0)]
  /\ ec = [i \in Ingestors |-> EventConsumerInit]
  /\ aborted = FALSE
  /\ envelope = NoEnvelope
  /\ rpc = "idle"
  /\ pf = [i \in Ingestors |-> NoPrefetch]
  /\ peeks = [i \in Ingestors |-> "none"]
  /\ peekTimer = NoTimer
  /\ chosen = 0
  /\ handled = << >>
  /\ started = [i \in Ingestors |-> 0]
  /\ rmReady = FALSE
  /\ hook = "none"
  /\ missed = {}
  /\ scope = [stack |-> << >>, disposed |-> << >>]

InitRM == InitRMOf(ScenariosRM)

\* EventProducer.produce on an ingested topic; the message is the event's
\* sequence number within its topic.
RmProduce(i) ==
  /\ Len(logs["A"]) + Len(logs["B"]) < cap.events
  /\ LET m == Len(logs[TopicOf(i)]) + 1
     IN logs' = Push(TopicOf(i), [timestamp |-> now, message |-> m, key |-> Keyer(m)])
  /\ UNCHANGED <<now, mutex, ec, aborted, envelope, migVars, rmVars, topicVars,
                 pureVars>>

\* ReadModel.start, up to the launch of the ingestion loop: the client (a
\* disposable one) is put on the stack, the consumers are opened.
RmStart ==
  /\ rpc = "idle"
  /\ rpc' = "loop"
  /\ started' = [i \in Ingestors |-> Len(logs[TopicOf(i)])]
  /\ scope' = [scope EXCEPT !.stack = StackUse(@, "client")]
  /\ UNCHANGED <<now, logs, mutex, ec, aborted, envelope, migVars, topicVars,
                 pf, peeks, peekTimer, chosen, handled, rmReady, hook, missed,
                 pureVars>>

\* A prefetch that starts a consume whatever it holds.
NeverPrefetched(p) == TRUE

\* #prefetch: `if (!this.#prefetched)`, nothing is held or awaited
NotPrefetched(p) == p.st = "none"

\* The loop test of start, then MultiConsumerIngestor.next up to its first
\* await: every ingestor is peeked, which starts a consume where nothing is
\* prefetched.  A peek whose envelope is already prefetched is settled by a
\* microtask, ahead of any timer.
RmNext ==
  /\ rpc \in {"loop", "recurse"}
  /\ IF rpc = "loop" /\ aborted
     THEN /\ rpc' = "stopped"
          /\ UNCHANGED <<pf, ec, mutex, peeks, peekTimer>>
     ELSE LET fresh == {i \in Ingestors : NotPrefetched(pf[i])}
          IN /\ rpc' = "peeking"
             /\ pf' = [i \in Ingestors |->
                         IF i \in fresh THEN [st |-> "pending"] ELSE pf[i]]
             /\ ec' = [i \in Ingestors |->
                         IF i \in fresh THEN ConsumeStart(ec[i], now, aborted)
                         ELSE ec[i]]
             /\ mutex' = [g \in DOMAIN mutex |->
                            IF \E i \in fresh : GroupOf(i) = g
                            THEN MutexGet(mutex[g], CHOOSE i \in fresh : GroupOf(i) = g)
                            ELSE mutex[g]]
             /\ peeks' = [i \in Ingestors |->
                            IF pf[i].st = "ready" THEN "date" ELSE "pending"]
             /\ peekTimer' = now + PeekTimeoutMs
  /\ UNCHANGED <<now, logs, aborted, envelope, migVars, topicVars, chosen,
                 handled, started, rmReady, hook, missed, scope, pureVars>>

\* InMemoryConsumer.consume resolves for an ingestor, EventConsumer.consume
\* resumes, and the prefetch and a waiting peek are settled.
RmDeliver(i) ==
  /\ pf[i].st = "pending"
  /\ MutexGranted(mutex[GroupOf(i)], i)
  /\ mutex[GroupOf(i)].state < Len(logs[TopicOf(i)])
  /\ LET raw == TopicGet(logs[TopicOf(i)], mutex[GroupOf(i)].state)
     IN /\ ec' = [ec EXCEPT ![i] = ConsumeDelivered(@, now, raw)]
        /\ pf' = [pf EXCEPT ![i] = [st |-> "ready", late |-> aborted,
                                    env |-> EnvelopeMap(NewEnvelope(raw, raw.key))]]
  /\ peeks' = IF rpc = "peeking" /\ peeks[i] = "pending"
              THEN [peeks EXCEPT ![i] = "date"] ELSE peeks
  /\ UNCHANGED <<now, logs, mutex, aborted, envelope, migVars, topicVars, rpc,
                 peekTimer, chosen, handled, started, rmReady, hook, missed, scope,
                 pureVars>>

\* The timeout of a peek wins its race.
RmPeekTimeout(i) ==
  /\ rpc = "peeking"
  /\ peeks[i] = "pending"
  /\ TimerDue(peekTimer)
  /\ peeks' = [peeks EXCEPT ![i] = "none"]
  /\ UNCHANGED <<now, logs, mutex, ec, aborted, envelope, migVars, topicVars,
                 rpc, pf, peekTimer, chosen, handled, started, rmReady, hook, missed,
                 scope, pureVars>>

\* The ingestor every ready peek is ignored for: the first one peeked.
FirstPeeked(dates) ==
  IF \A i \in 1 .. Len(dates) : dates[i] = << >> THEN 0
  ELSE CHOOSE i \in 1 .. Len(dates) :
         dates[i] # << >> /\ \A j \in 1 .. (i - 1) : dates[j] = << >>

\* A choice that gives a tie to the ingestor registered last.
LastOnTies(dates) ==
  IF \A i \in 1 .. Len(dates) : dates[i] = << >> THEN 0
  ELSE CHOOSE i \in 1 .. Len(dates) :
         /\ dates[i] # << >>
         /\ \A j \in 1 .. Len(dates) :
              dates[j] # << >> =>
                \/ GetTime(dates[i][1]) < GetTime(dates[j][1])
                \/ GetTime(dates[i][1]) = GetTime(dates[j][1]) /\ j <= i

\* A choice that looks at the first ingestor alone.
OnlyFirstIngestor(dates) == IF dates[1] # << >> THEN 1 ELSE 0

\* The for loop of next over peekedDates (<< >> for undefined, << date >>
\* otherwise); best is earliestIndex plus one, 0 while undefined.
RECURSIVE EarliestFrom(_, _, _)
EarliestFrom(dates, i, best) ==
  IF i > Len(dates) THEN best
  ELSE IF dates[i] = << >> THEN EarliestFrom(dates, i + 1, best)
  ELSE IF best = 0 \/ GetTime(dates[best][1]) > GetTime(dates[i][1])
       THEN EarliestFrom(dates, i + 1, i)
       ELSE EarliestFrom(dates, i + 1, best)

EarliestIndex(dates) == EarliestFrom(dates, 1, 0)

\* next resumes after Promise.all of the peeks; peekedDates and the timers of
\* the peeks are of no effect afterwards.
RmChoose ==
  /\ rpc = "peeking"
  /\ \A i \in Ingestors : peeks[i] # "pending"
  /\ LET dates == [i \in Ingestors |->
                     IF peeks[i] = "date" THEN << pf[i].env.event.timestamp >>
                     ELSE << >>]
         earliest == EarliestIndex(dates)
     IN IF earliest = 0
        THEN rpc' = "waitAny" /\ UNCHANGED <<chosen, missed>>
        ELSE /\ rpc' = "take"
             /\ chosen' = earliest
             /\ missed' = missed \cup {i \in Ingestors : peeks[i] = "none"}
  /\ peeks' = [i \in Ingestors |-> "none"]
  /\ peekTimer' = NoTimer
  /\ UNCHANGED <<now, logs, mutex, ec, aborted, envelope, migVars, topicVars,
                 pf, handled, started, rmReady, hook, scope, pureVars>>

\* Promise.race of the untimed peeks settles; next calls itself.
RmWaitAny ==
  /\ rpc = "waitAny"
  /\ \E i \in Ingestors : pf[i].st = "ready"
  /\ rpc' = "recurse"
  /\ UNCHANGED <<now, logs, mutex, ec, aborted, envelope, migVars, topicVars,
                 pf, peeks, peekTimer, chosen, handled, started, rmReady, hook,
                 missed, scope, pureVars>>

\* ConsumerIngestor.take: the prefetched envelope is taken and the handler called.
RmTake ==
  /\ rpc = "take"
  /\ envelope' = pf[chosen].env
  /\ pf' = [pf EXCEPT ![chosen] = NoPrefetch]
  /\ handled' = Append(handled, [i |-> chosen, st |-> "running",
                                 message |-> pf[chosen].env.event.message,
                                 cancelled |-> pf[chosen].late])
  /\ rpc' = "handler"
  /\ UNCHANGED <<now, logs, mutex, ec, aborted, migVars, topicVars, peeks,
                 peekTimer, chosen, started, rmReady, hook, missed, scope, pureVars>>

\* The promise of the handler settles.
RmHandlerDone(outcome) ==
  /\ rpc = "handler"
  /\ handled' = [handled EXCEPT ![Len(handled)].st = outcome]
  /\ rpc' = IF outcome = "ok" THEN "dispose" ELSE "nack"
  /\ UNCHANGED <<now, logs, mutex, ec, aborted, envelope, migVars, topicVars,
                 pf, peeks, peekTimer, chosen, started, rmReady, hook, missed, scope,
                 pureVars>>

\* catch: await envelope.nack()
RmNack ==
  /\ rpc = "nack"
  /\ envelope' = EnvelopeNack(envelope)
  /\ mutex' = [mutex EXCEPT ![GroupOf(chosen)] = AckerNack(@)]
  /\ rpc' = "rethrow"
  /\ UNCHANGED <<now, logs, ec, aborted, migVars, topicVars, pf, peeks,
                 peekTimer, chosen, handled, started, rmReady, hook, missed, scope,
                 pureVars>>

\* finally: await envelope[Symbol.asyncDispose](); after a failure next then
\* rejects and the loop of start ends with it, the promise of the loop being
\* observed by nobody ("failedEarly": some catch-up promise was still pending).
\* A loop that swallows the error of take and goes on.
LoopSwallowsError(thrown) == "loop"

\* Where the loop of start is after take: take returned and the loop goes
\* round, or take threw, next rejects and the loop ends.
LoopAfterTake(thrown) ==
  IF ~thrown THEN "loop"
  ELSE IF \A i \in Ingestors : ec[i].calls > 0 THEN "failed"
  ELSE "failedEarly"

RmDispose ==
  /\ rpc \in {"dispose", "rethrow"}
  /\ mutex' = [mutex EXCEPT ![GroupOf(chosen)] = EnvelopeDispose(envelope, @)]
  /\ envelope' = NoEnvelope
  /\ rpc' = LoopAfterTake(rpc = "rethrow")
  /\ chosen' = 0
  /\ UNCHANGED <<now, logs, ec, aborted, migVars, topicVars, pf, peeks,
                 peekTimer, handled, started, rmReady, hook, missed, scope,
                 pureVars>>

\* Promise.any in the place of Promise.all.
AnyCaughtUp == \E i \in Ingestors : ec[i].calls > 0

\* Promise.all(catchUpPromises) has settled: every onCatchUp was called.
AllCaughtUp == \A i \in Ingestors : ec[i].calls > 0

\* start resumes after Promise.all(catchUpPromises) and calls
\* clientFactory.onCatchUp(client).
RmOnCatchUp ==
  /\ rpc # "idle"
  /\ hook = "none"
  /\ AllCaughtUp
  /\ hook' = "running"
  /\ UNCHANGED <<now, logs, mutex, ec, aborted, envelope, migVars, topicVars,
                 rpc, pf, peeks, peekTimer, chosen, handled, started, rmReady,
                 missed, scope, pureVars>>

\* The promise of clientFactory.onCatchUp settles; when it is fulfilled start
\* returns the client, else start rejects.
RmResolve(outcome) ==
  /\ hook = "running"
  /\ hook' = outcome
  /\ rmReady' = (outcome = "done")
  /\ UNCHANGED <<now, logs, mutex, ec, aborted, envelope, migVars, topicVars,
                 rpc, pf, peeks, peekTimer, chosen, handled, started, missed,
                 scope, pureVars>>

\* The signal given to start aborts: the stack is disposed and the abort
\* listeners of the consumes in flight run.
RmAbort ==
  /\ rpc # "idle"
  /\ ~aborted
  /\ aborted' = TRUE
  /\ ec' = [i \in Ingestors |-> IF ec[i].listening THEN CatchUp(ec[i]) ELSE ec[i]]
  /\ scope' = StackDisposeAsync(scope)
  /\ UNCHANGED <<now, logs, mutex, envelope, migVars, topicVars, rpc, pf,
                 peeks, peekTimer, chosen, handled, started, rmReady, hook, missed,
                 pureVars>>

NextRM ==
  \/ Tick
  \/ \E i \in Ingestors : RmProduce(i)
  \/ RmStart
  \/ RmNext
  \/ \E i \in Ingestors : RmDeliver(i)
  \/ \E i \in Ingestors : RmPeekTimeout(i)
  \/ RmChoose
  \/ RmWaitAny
  \/ RmTake
  \/ \E outcome \in {"ok", "failed"} : RmHandlerDone(outcome)
  \/ RmNack
  \/ RmDispose
  \/ RmOnCatchUp
  \/ \E outcome \in {"done", "failed"} : RmResolve(outcome)
  \/ \E i \in Ingestors : TimerFire(i)
  \/ RmAbort

SpecRM == InitRM /\ [][NextRM]_vars

----------------------------------------------------------------------------
(* The in-memory substrate on its own: one InMemoryTopic "T", a producer,   *)
(* and tasks that open a consumer of it and consume.  A task opens either   *)
(* the consumer of the named group "g" or the consumer of an anonymous      *)
(* group of its own.  InMemoryTopic.consumer hands every member of a group  *)
(* the same InMemoryConsumer, hence the same offset mutex.                  *)

MaxClients == 2

Clients == 1 .. MaxClients
TopicGroup == "g"
StartFroms == {"BEGINNING", "END"}

\* ConsumerGroup.join
ConsumerGroupJoin(name, startFrom) ==
  [name |-> <<name, 0>>, startFrom |-> startFrom]

\* ConsumerGroup.anonymous: crypto.randomUUID() yields a name no other call
\* yields; the name carries the task that made the call, which makes one call.
ConsumerGroupAnonymous(c, startFrom) ==
  [name |-> <<"uuid", c>>, startFrom |-> startFrom]

\* A start offset that is the end of the topic whatever the group asks for.
StartOffsetEnd(startFrom, log) ==
  Len(log)

\* The switch on group.startFrom in InMemoryTopic.consumer
StartOffset(startFrom, log) ==
  IF startFrom = "BEGINNING" THEN 0 ELSE Len(log)

\* InMemoryTopicFactory.make: the topic of a name is created on the first call
\* for the name and found again on later calls.
TopicFactoryMake(cache, name) ==
  IF name \in DOMAIN cache THEN cache ELSE cache @@ (name :> << >>)

\* A consumer call that sets the offset of the group anew every time.
TopicConsumerRestart(m, group, log) ==
  [n \in DOMAIN m \cup {group.name} |->
     IF n # group.name THEN m[n]
     ELSE [state |-> StartOffset(group.startFrom, log),
           chain |-> IF n \in DOMAIN m THEN m[n].chain ELSE << >>]]

\* InMemoryTopic.consumer: the consumer of the group is created on the first
\* call for its name and found again on later calls.
TopicConsumer(m, group, log) ==
  IF group.name \in DOMAIN m
  THEN m
  ELSE m @@ (group.name :> MutexInit(StartOffset(group.startFrom, log)))

Unopened == [st |-> "unopened"]
Idle(cl) == [st |-> "idle", group |-> cl.group, at |-> cl.at]

\* Many tasks that share the named group on a short topic, many tasks with an
\* anonymous group each on a short topic, or few tasks, free to open either,
\* on a long one.
ScenariosTopic ==
  {[src |-> 0, calls |-> 0, ticks |-> 0, events |-> MaxEvents - 2,
    clients |-> MaxClients, named |-> TRUE, anonymous |-> FALSE],
   [src |-> 0, calls |-> 0, ticks |-> 0, events |-> MaxEvents - 2,
    clients |-> MaxClients, named |-> FALSE, anonymous |-> TRUE],
   [src |-> 0, calls |-> 0, ticks |-> 0, events |-> MaxEvents,
    clients |-> MaxClients - 1, named |-> TRUE, anonymous |-> TRUE]}

InitTopic ==
  /\ cap \in ScenariosTopic
  /\ MigUnused
  /\ RmUnused
  /\ PureUnused
  /\ now = 0
  /\ logs = << >>
  /\ mutex = << >>
  /\ ec = << >>
  /\ aborted = FALSE
  /\ envelope = NoEnvelope
  /\ clients = [c \in Clients |-> Unopened]
  /\ delivered = [c \in Clients |-> << >>]

\* (await factory.make("T")).producer().produce(...): InMemoryProducer.produce
TopicProduce ==
  LET made == TopicFactoryMake(logs, "T")
      m == Len(made["T"]) + 1
  IN /\ m <= cap.events
     /\ logs' = [made EXCEPT !["T"] =
                   Append(@, [timestamp |-> now, message |-> m,
                              key |-> Keyer(m)])]
  /\ UNCHANGED <<now, mutex, ec, aborted, envelope, migVars, rmVars, topicVars,
                 pureVars>>

\* (await factory.make("T")).consumer(group); "at" remembers how many events
\* the topic held.
ClientOpen(c) ==
  /\ clients[c].st = "unopened"
  /\ Cardinality({d \in Clients : clients[d].st # "unopened"}) < cap.clients
  /\ logs' = TopicFactoryMake(logs, "T")
  /\ \E startFrom \in StartFroms :
       \E group \in (IF cap.named
                     THEN {ConsumerGroupJoin(TopicGroup, startFrom)}
                     ELSE {}) \cup
                    (IF cap.anonymous
                     THEN {ConsumerGroupAnonymous(c, startFrom)}
                     ELSE {}) :
         /\ mutex' = TopicConsumer(mutex, group, logs'["T"])
         /\ clients' = [clients EXCEPT ![c] =
                          Idle([group |-> group, at |-> Len(logs'["T"])])]
  /\ UNCHANGED <<now, ec, aborted, envelope, migVars, rmVars, delivered,
                 pureVars>>

\* InMemoryConsumer.consume, to the await of InMemoryMutex.get
ClientConsume(c) ==
  /\ clients[c].st = "idle"
  /\ mutex' = [mutex EXCEPT ![clients[c].group.name] = MutexGet(@, c)]
  /\ clients' = [clients EXCEPT ![c].st = "consuming"]
  /\ UNCHANGED <<now, logs, ec, aborted, envelope, migVars, rmVars, delivered,
                 pureVars>>

\* InMemoryConsumer.consume resolves: the guard is held and the event at the
\* guarded offset exists.
ClientDeliver(c) ==
  /\ clients[c].st = "consuming"
  /\ LET g == clients[c].group.name
     IN /\ MutexGranted(mutex[g], c)
        /\ mutex[g].state < Len(logs["T"])
        /\ LET raw == TopicGet(logs["T"], mutex[g].state)
           IN /\ clients' = [clients EXCEPT ![c] =
                               [st |-> "holding", group |-> @.group,
                                at |-> @.at,
                                env |-> NewEnvelope(raw, raw.key)]]
              /\ delivered' =
                   [delivered EXCEPT ![c] =
                      Append(@, [message |-> raw.message, nackCalled |-> FALSE,
                                 released |-> FALSE, acked |-> FALSE])]
  /\ UNCHANGED <<now, logs, mutex, ec, aborted, envelope, migVars, rmVars,
                 pureVars>>

\* The task fails on the event: envelope.nack()
ClientNack(c) ==
  /\ clients[c].st = "holding"
  /\ ~clients[c].env.nacked
  /\ clients' = [clients EXCEPT ![c].env = EnvelopeNack(@)]
  /\ mutex' = [mutex EXCEPT ![clients[c].group.name] = AckerNack(@)]
  /\ delivered' = [delivered EXCEPT ![c][Len(delivered[c])].nackCalled = TRUE]
  /\ UNCHANGED <<now, logs, ec, aborted, envelope, migVars, rmVars, pureVars>>

\* envelope[Symbol.asyncDispose](), after which the task may consume again;
\* the envelope is marked acked when this called the acker's ack.
ClientDispose(c) ==
  /\ clients[c].st = "holding"
  /\ mutex' = [mutex EXCEPT ![clients[c].group.name] =
                 EnvelopeDispose(clients[c].env, @)]
  /\ clients' = [clients EXCEPT ![c] = Idle(@)]
  /\ delivered' =
       [delivered EXCEPT ![c][Len(delivered[c])] =
          [@ EXCEPT !.released = TRUE,
                    !.acked = mutex'[clients[c].group.name]
                                # mutex[clients[c].group.name]]]
  /\ UNCHANGED <<now, logs, ec, aborted, envelope, migVars, rmVars, pureVars>>

NextTopic ==
  \/ TopicProduce
  \/ \E c \in Clients : ClientOpen(c)
  \/ \E c \in Clients : ClientConsume(c)
  \/ \E c \in Clients : ClientDeliver(c)
  \/ \E c \in Clients : ClientNack(c)
  \/ \E c \in Clients : ClientDispose(c)

SpecTopic == InitTopic /\ [][NextTopic]_vars

----------------------------------------------------------------------------
(* The namespace of a read model (ReadModel.start), for two read models of  *)
(* one name started over the same topics and the same client factory.       *)
(* A text is a sequence of characters; a chunk of characters that holds no  *)
(* digit and no comma is written as one element.                            *)

MaxNonce == 10

Digits == << "0", "1", "2", "3", "4", "5", "6", "7", "8", "9" >>

\* Number.prototype.toString of a non-negative integer
RECURSIVE NumToString(_)
NumToString(n) ==
  IF n < 10 THEN << Digits[n + 1] >>
  ELSE NumToString(n \div 10) \o << Digits[(n % 10) + 1] >>

\* Array.prototype.join() of texts: the separator is a comma
RECURSIVE Join(_)
Join(texts) ==
  IF texts = << >> THEN << >>
  ELSE IF Len(texts) = 1 THEN texts[1]
  ELSE texts[1] \o << "," >> \o Join(Tail(texts))

\* Function.prototype.toString of the initializers and handlers in use: arrow
\* functions whose body is a number or a call.
InitializerTexts == { << "c=>", "1" >>, << "c=>", "1", "1" >> }
HandlerTexts == { << "(e,c)=>c.add(e)" >>, << "(e,c)=>c.put(e)" >> }
\* The event types: "E" and "F", and "E2" which has the name and the schema
\* of "E" and the nonce 1.
EventTypeNameOf(et) == IF et = "E2" THEN "E" ELSE et
EventTypeNonceOf(et) == IF et = "E2" THEN 1 ELSE 0
\* EventType.toString
EventTypeText(et) == << EventTypeNameOf(et), " {name: string}" >>

Nonces == 0 .. MaxNonce

\* The string that start hashes: the initializers, then the ingestors
NamespaceData(rm) ==
  Join([k \in 1 .. Len(rm.initializers) |->
          rm.initializers[k].text \o NumToString(rm.initializers[k].nonce)]
       \o [k \in 1 .. Len(rm.ingestors) |->
             EventTypeText(rm.ingestors[k].eventType)
               \o NumToString(rm.ingestors[k].nonce)
               \o rm.ingestors[k].text])

\* SHA-1 in hexadecimal, taken to be free of collisions: the digest stands
\* for the string digested.
Sha1Hex(data) == << "sha1(" >> \o data \o << ")" >>

\* namingConvention.convert(`${name}_HASH`).slice(0, -3) + digest
Namespace(rm) == << rm.name, "H" >> \o Sha1Hex(NamespaceData(rm))

\* EventType.topicName
NsTopicName(et) ==
  << EventTypeNameOf(et), "-" >>
    \o Sha1Hex(EventTypeText(et) \o NumToString(EventTypeNonceOf(et)))

\* ConsumerGroup.join(`${namespace}-${topicName}`)
NsGroup(rm, k) ==
  Namespace(rm) \o << "-" >> \o NsTopicName(rm.ingestors[k].eventType)

RegisteredInitializers ==
  { << >> } \cup { << [text |-> t, nonce |-> n] >> : t \in InitializerTexts, n \in Nonces }
FirstIngestors ==
  { [eventType |-> et, text |-> t, nonce |-> n] :
      et \in {"E", "E2"}, t \in HandlerTexts, n \in {0, 1} }
RegisteredIngestors ==
  { << i >> : i \in FirstIngestors }
    \cup { << i, [eventType |-> "F", text |-> i.text, nonce |-> 0] >> : i \in FirstIngestors }
ReadModels ==
  { [name |-> "Entity", initializers |-> is, ingestors |-> gs] :
      is \in RegisteredInitializers, gs \in RegisteredIngestors }

\* The read models whose nonces are all left at the default
DefaultNonces ==
  { r \in ReadModels :
      /\ \A k \in 1 .. Len(r.initializers) : r.initializers[k].nonce = 0
      /\ \A k \in 1 .. Len(r.ingestors) : r.ingestors[k].nonce = 0 }

\* The events of the topic of "E" and of the topic of "E2"; the topic of "F"
\* is empty.
NsEvents == << "First", "Second" >>
NsEventsOf(et) == IF et = "E2" THEN << "Other" >> ELSE NsEvents

InitNS ==
  /\ cap = [src |-> 0, calls |-> 0, ticks |-> 0, events |-> 0]
  /\ MigUnused
  /\ RmUnused
  /\ TopicUnused
  /\ now = 0
  /\ logs = << >>
  /\ mutex = << >>
  /\ ec = << >>
  /\ aborted = FALSE
  /\ envelope = NoEnvelope
  /\ arg \in { << a, b >> : a \in DefaultNonces, b \in ReadModels }
  /\ res = [started |-> {}, clients |-> << >>, offsets |-> << >>]

\* ReadModel.start of one of the two read models: the client factory keeps
\* one client per namespace, the topic one consumer (and offset) per group.
NsStart(r) ==
  /\ r \notin res.started
  /\ LET ns == Namespace(arg[r])
         groups == { NsGroup(arg[r], k) : k \in 1 .. Len(arg[r].ingestors) }
     IN res' = [started |-> res.started \cup {r},
                clients |-> IF ns \in DOMAIN res.clients THEN res.clients
                            ELSE res.clients @@ (ns :> << >>),
                offsets |-> [g \in groups \ DOMAIN res.offsets |-> 0] @@ res.offsets]
  /\ UNCHANGED <<now, logs, mutex, ec, aborted, envelope, migVars, rmVars,
                 topicVars, arg>>

\* The ingestion loop of a started read model handles the next event of the
\* topic of its first ingestor.
NsIngest(r) ==
  /\ r \in res.started
  /\ LET ns == Namespace(arg[r])
         g == NsGroup(arg[r], 1)
         et == arg[r].ingestors[1].eventType
     IN /\ res.offsets[g] < Len(NsEventsOf(et))
        /\ res' = [res EXCEPT
                     !.clients[ns] = Append(@, [by |-> r, topic |-> NsTopicName(et),
                                                event |-> NsEventsOf(et)[res.offsets[g] + 1]]),
                     !.offsets[g] = @ + 1]
  /\ UNCHANGED <<now, logs, mutex, ec, aborted, envelope, migVars, rmVars,
                 topicVars, arg>>

NextNS ==
  \/ \E r \in 1 .. 2 : NsStart(r)
  \/ \E r \in 1 .. 2 : NsIngest(r)

SpecNS == InitNS /\ [][NextNS]_vars

----------------------------------------------------------------------------
(* EventProducer: one producer of an event type whose schema is a record    *)
(* with at most the field "id".  A JavaScript string is a sequence of       *)
(* UTF-16 code units, a Uint8Array a sequence of bytes.  "T" receives what   *)
(* the producer passes to the inner producer, key included.                 *)

MaxLen == 2

HighSurrogate == 55296
LowSurrogate == 56320
Replacement == 65533
\* "a", and one code unit of each half of a surrogate pair
CodeUnits == {97, HighSurrogate, LowSurrogate}

IsHigh(u) == u >= 55296 /\ u <= 56319
IsLow(u) == u >= 56320 /\ u <= 57343

Strings == UNION {[1 .. n -> CodeUnits] : n \in 0 .. MaxLen}

\* The UTF-8 bytes of one code point
Utf8Of(cp) ==
  IF cp < 128 THEN << cp >>
  ELSE IF cp < 2048 THEN << 192 + (cp \div 64), 128 + (cp % 64) >>
  ELSE IF cp < 65536
       THEN << 224 + (cp \div 4096), 128 + ((cp \div 64) % 64),
               128 + (cp % 64) >>
  ELSE << 240 + (cp \div 262144), 128 + ((cp \div 4096) % 64),
          128 + ((cp \div 64) % 64), 128 + (cp % 64) >>

\* An encoder that writes the length of the string.
EncodeLength(s) == << Len(s) >>

\* TextEncoder.encode: a surrogate pair is one code point, a surrogate that is
\* not part of a pair is replaced by U+FFFD.
RECURSIVE Encode(_)
Encode(s) ==
  IF s = << >> THEN << >>
  ELSE IF IsHigh(s[1]) /\ Len(s) >= 2 /\ IsLow(s[2])
       THEN Utf8Of(65536 + ((s[1] - HighSurrogate) * 1024)
                         + (s[2] - LowSurrogate))
            \o Encode(Tail(Tail(s)))
  ELSE IF IsHigh(s[1]) \/ IsLow(s[1])
       THEN Utf8Of(Replacement) \o Encode(Tail(s))
  ELSE Utf8Of(s[1]) \o Encode(Tail(s))

\* JavaScript values: null or undefined, a string, a number, a Uint8Array.
Null == [kind |-> "null", val |-> << >>]
Str(s) == [kind |-> "string", val |-> s]
Num(n) == [kind |-> "number", val |-> << n >>]
Bytes(b) == [kind |-> "bytes", val |-> b]

\* The schemas of the event type: { id: <spec> } or {}.
IdSpecs == {"String", "String?", "Number", "Bytes", "none"}

\* Optional wrappers are peeled off before the keyer is chosen.
Unwrapped(idSpec) == IF idSpec = "String?" THEN "String" ELSE idSpec

\* RecordSpec.assert on the event { id: v } (or {} when v is null)
SpecAccepts(idSpec, v) ==
  CASE idSpec = "String" -> v.kind = "string"
    [] idSpec = "String?" -> v.kind \in {"string", "null"}
    [] idSpec = "Number" -> v.kind = "number"
    [] idSpec = "Bytes" -> v.kind = "bytes"
    [] idSpec = "none" -> v.kind = "null"

\* this.#keyer?.(event) ?? null, with the keyer the constructor chose
ProducerKeyer(idSpec, v) ==
  IF v.kind = "null" THEN Null
  ELSE CASE Unwrapped(idSpec) = "Bytes" -> v
         [] Unwrapped(idSpec) = "String" -> Bytes(Encode(v.val))
         [] Unwrapped(idSpec) = "Number" -> Bytes(<< v.val[1] % 256 >>)
         [] Unwrapped(idSpec) = "none" -> Null

\* The truthiness of the key argument: `key ? ... : ...`
Truthy(key) ==
  \/ key.kind = "bytes"
  \/ key.kind = "string" /\ key.val # << >>

\* Buffer.from(key)
BufferFrom(key) ==
  IF key.kind = "string" THEN Bytes(Encode(key.val)) ELSE key

\* What produce(event, key) does: the error it throws, or the key it hands to
\* the inner producer.
ProduceOutcome(producer, v, key) ==
  IF ~SpecAccepts(producer.idSpec, v)
  THEN [error |-> "AssertionError", k |-> Null]
  ELSE IF producer.aggregate /\ Truthy(key)
  THEN [error |-> "KeyOverride", k |-> Null]
  ELSE LET k == IF Truthy(key) THEN BufferFrom(key)
                ELSE ProducerKeyer(producer.idSpec, v)
       IN IF producer.aggregate /\ k.kind = "null"
          THEN [error |-> "MissingKey", k |-> Null]
          ELSE [error |-> "none", k |-> k]

\* The ids of the events handed to produce
IdValues == {Null, Num(7), Num(263), Bytes(<< 1 >>)} \cup {Str(s) : s \in Strings}

\* The key argument: absent, the empty string, a string, a Uint8Array.
CallerKeys == {Null, Str(<< >>), Str(<< 97 >>), Bytes(<< 1 >>)}

NoCall == [made |-> FALSE]

InitProducer ==
  /\ cap = [src |-> 0, calls |-> 0, ticks |-> 0, events |-> 2]
  /\ MigUnused
  /\ RmUnused
  /\ TopicUnused
  /\ now = 0
  /\ logs = [t \in {"T"} |-> << >>]
  /\ mutex = << >>
  /\ ec = << >>
  /\ aborted = FALSE
  /\ envelope = NoEnvelope
  /\ arg \in [aggregate : BOOLEAN, idSpec : IdSpecs]
  /\ res = [calls |-> 0, last |-> NoCall]

\* EventProducer.produce; res.last keeps the call and what became of it.
ProducerProduce(v, key) ==
  /\ res.calls < cap.events
  /\ LET out == ProduceOutcome(arg, v, key)
     IN /\ logs' = IF out.error = "none"
                   THEN Push("T", [timestamp |-> now, message |-> [id |-> v],
                                   key |-> out.k])
                   ELSE logs
        /\ res' = [calls |-> res.calls + 1,
                   last |-> [made |-> TRUE, id |-> v, key |-> key,
                             error |-> out.error,
                             before |-> Len(logs["T"])]]
  /\ UNCHANGED <<now, mutex, ec, aborted, envelope, migVars, rmVars, topicVars,
                 arg>>

NextProducer ==
  \E v \in IdValues : \E key \in CallerKeys : ProducerProduce(v, key)

SpecProducer == InitProducer /\ [][NextProducer]_vars

----------------------------------------------------------------------------
(* TypeSpec: schemas and their string form.  A schema is a tree; a string   *)
(* is written as the sequence of its lines, each line a string without a    *)
(* line break.                                                              *)

MaxNodes == 4

Primitives == {"String", "Number", "Boolean", "Bytes"}

PrimitiveSpec(p) == [type |-> p, names |-> << >>, spec |-> << >>]
ArraySpec(t) == [type |-> "Array", names |-> << >>, spec |-> << t >>]
OptionalSpec(t) == [type |-> "Optional", names |-> << >>, spec |-> << t >>]
UnionSpec(variants) == [type |-> "Union", names |-> << >>, spec |-> variants]
\* TypeSpec.Record: the fields in the order of Object.entries
RecordSpec(names, specs) == [type |-> "Record", names |-> names, spec |-> specs]

\* BaseTypeSpec.or, and UnionSpec.#or which appends to the variants
Or(x, y) ==
  IF x.type = "Union" THEN UnionSpec(Append(x.spec, y))
  ELSE UnionSpec(<< x, y >>)

\* The schemas of n nodes that the exported constructors and or() can build:
\* a record has the one field "a".
RECURSIVE AllOf(_), NonUnionOf(_), UnionsOf(_)
NonUnionOf(n) ==
  IF n = 1 THEN {PrimitiveSpec(p) : p \in Primitives}
  ELSE {ArraySpec(t) : t \in AllOf(n - 1)}
         \cup {OptionalSpec(t) : t \in AllOf(n - 1)}
         \cup {RecordSpec(<< "a" >>, << t >>) : t \in AllOf(n - 1)}
UnionsOf(n) ==
  UNION {{Or(x, y) : x \in NonUnionOf(i), y \in AllOf(n - 1 - i)} :
           i \in 1 .. n - 2}
    \cup UNION {{Or(x, y) : x \in UnionsOf(m), y \in AllOf(n - m)} :
                  m \in 3 .. n - 1}
AllOf(n) == NonUnionOf(n) \cup UnionsOf(n)

Schemas == UNION {AllOf(n) : n \in 1 .. MaxNodes}

\* a + b for strings written as lines
CatLines(a, b) ==
  SubSeq(a, 1, Len(a) - 1) \o << a[Len(a)] \o b[1] >> \o Tail(b)

\* Array.prototype.join(sep) of strings written as lines
RECURSIVE JoinBy(_, _)
JoinBy(sep, parts) ==
  IF parts = << >> THEN << "" >>
  ELSE IF Len(parts) = 1 THEN parts[1]
  ELSE CatLines(CatLines(parts[1], sep), JoinBy(sep, Tail(parts)))

\* RecordSpec.#indent
Indent(lines) == [k \in 1 .. Len(lines) |-> "  " \o lines[k]]

\* toString of every TypeSpec class
RECURSIVE SpecToString(_)
SpecToString(t) ==
  CASE t.type \in Primitives -> << t.type >>
    [] t.type = "Array" -> CatLines(SpecToString(t.spec[1]), << "[]" >>)
    [] t.type = "Optional" -> CatLines(SpecToString(t.spec[1]), << "?" >>)
    [] t.type = "Union" ->
         JoinBy(<< " | " >>, [k \in 1 .. Len(t.spec) |-> SpecToString(t.spec[k])])
    [] t.type = "Record" ->
         << "{" >>
           \o Indent(JoinBy(<< "", "" >>,
                            [k \in 1 .. Len(t.spec) |->
                               CatLines(<< t.names[k] \o ": " >>,
                                        SpecToString(t.spec[k]))]))
           \o << "}" >>

NotComputed == << >>

InitSchema ==
  /\ cap = [src |-> 0, calls |-> 0, ticks |-> 0, events |-> 0]
  /\ MigUnused
  /\ RmUnused
  /\ TopicUnused
  /\ now = 0
  /\ logs = << >>
  /\ mutex = << >>
  /\ ec = << >>
  /\ aborted = FALSE
  /\ envelope = NoEnvelope
  /\ arg \in Schemas
  /\ res = NotComputed

\* spec.toString()
SchemaToString ==
  /\ res = NotComputed
  /\ res' = SpecToString(arg)
  /\ UNCHANGED <<cap, now, logs, mutex, ec, aborted, envelope, migVars, rmVars,
                 topicVars, arg>>

NextSchema == SchemaToString

SpecSchema == InitSchema /\ [][NextSchema]_vars

----------------------------------------------------------------------------
(* EventType: the topic name of an event type, and addFields.               *)

\* Number.prototype.toString of a non-negative integer, as a string
RECURSIVE NumText(_)
NumText(n) ==
  IF n < 10 THEN Digits[n + 1]
  ELSE NumText(n \div 10) \o Digits[(n % 10) + 1]

\* EventType.new
EventTypeNew(name, spec, nonce) == [name |-> name, spec |-> spec, nonce |-> nonce]

\* EventType.toString
EventTypeToString(et) == CatLines(<< et.name \o " " >>, SpecToString(et.spec))

\* EventType.topicName
TopicName(et) ==
  << et.name \o "-" >>
    \o Sha1Hex(CatLines(EventTypeToString(et), << NumText(et.nonce) >>))

\* { ...this.#spec.spec, ...patchSpec } for a patch of one field: a field the
\* record has keeps its place, a new field goes last.
Patched(record, field, t) ==
  IF \E k \in 1 .. Len(record.names) : record.names[k] = field
  THEN RecordSpec(record.names,
                  [k \in 1 .. Len(record.names) |->
                     IF record.names[k] = field THEN t ELSE record.spec[k]])
  ELSE RecordSpec(Append(record.names, field), Append(record.spec, t))

\* EventType.addFields on a record type
AddFields(et, field, t, nonce) ==
  EventTypeNew(et.name, Patched(et.spec, field, t), et.nonce + nonce)

EventNames == {"e"}
EventNonces == {0, 1}
FieldNames == {"a", "b"}

RECURSIVE BuiltFrom(_, _)
BuiltFrom(t, primitives) ==
  IF t.type \in Primitives THEN t.type \in primitives
  ELSE \A k \in 1 .. Len(t.spec) : BuiltFrom(t.spec[k], primitives)

\* The types of the fields handed to addFields: the schemas over String
PatchTypes == {t \in Schemas : BuiltFrom(t, {"String"})}
NotDerived == [made |-> FALSE]

InitEventType ==
  /\ cap = [src |-> 0, calls |-> 0, ticks |-> 0, events |-> 0]
  /\ MigUnused
  /\ RmUnused
  /\ TopicUnused
  /\ now = 0
  /\ logs = << >>
  /\ mutex = << >>
  /\ ec = << >>
  /\ aborted = FALSE
  /\ envelope = NoEnvelope
  /\ arg \in {EventTypeNew(name, t, n) :
                name \in EventNames, t \in Schemas, n \in EventNonces}
  /\ res = [topic |-> NotComputed, derived |-> NotDerived]

\* eventType.topicName()
EtTopicName ==
  /\ res.topic = NotComputed
  /\ res' = [res EXCEPT !.topic = TopicName(arg)]
  /\ UNCHANGED <<cap, now, logs, mutex, ec, aborted, envelope, migVars, rmVars,
                 topicVars, arg>>

\* eventType.addFields({ [field]: { type: t, ... } }, { nonce }), and the topic
\* name of the type it returns; on a type that is no record it throws.
EtAddFields(field, t, nonce) ==
  /\ ~res.derived.made
  /\ res' = [res EXCEPT !.derived =
               IF arg.spec.type # "Record"
               THEN [made |-> TRUE, error |-> TRUE]
               ELSE LET newType == AddFields(arg, field, t, nonce)
                    IN [made |-> TRUE, error |-> FALSE, type |-> newType,
                        topic |-> TopicName(newType)]]
  /\ UNCHANGED <<cap, now, logs, mutex, ec, aborted, envelope, migVars, rmVars,
                 topicVars, arg>>

NextEventType ==
  \/ EtTopicName
  \/ \E field \in FieldNames : \E t \in PatchTypes : \E nonce \in EventNonces :
       EtAddFields(field, t, nonce)

SpecEventType == InitEventType /\ [][NextEventType]_vars

----------------------------------------------------------------------------
(* KafkaConsumer: one consumer and one task that calls consume, awaits the  *)
(* result, releases the envelope and calls again.  arg says whether the     *)
(* task passes the abort signal; res is the consumer and the call.          *)
(* A resumer is the resolve function of one wait; resumers are numbered in  *)
(* the order of their creation.                                             *)

Tombstone == "null"
KafkaValues == {"value", Tombstone}
None == [kind |-> "undefined"]

InitKafka ==
  /\ cap = [src |-> 0, calls |-> 0, ticks |-> 0, events |-> MaxEvents]
  /\ MigUnused
  /\ RmUnused
  /\ TopicUnused
  /\ now = 0
  /\ logs = << >>
  /\ mutex = << >>
  /\ ec = << >>
  /\ aborted = FALSE
  /\ envelope = NoEnvelope
  /\ arg \in [signal : BOOLEAN]
  /\ res = [buffer |-> << >>, resumers |-> << >>, listeners |-> {},
            resolved |-> {}, closed |-> FALSE, made |-> 0, sent |-> 0,
            committed |-> 0, pc |-> "idle", mine |-> 0, signal |-> FALSE,
            result |-> None, cancelledInWait |-> FALSE]

\* consume from the head of its while loop to its next await or return, for
\* a call that holds the signal or not (the call consume makes for a tombstone
\* passes no signal).
RECURSIVE KafkaLoop(_, _)
KafkaLoop(k, signal) ==
  IF k.buffer = << >> /\ ~k.closed
  THEN [k EXCEPT !.pc = "waiting",
                 !.made = @ + 1,
                 !.mine = k.made + 1,
                 !.signal = signal,
                 !.resumers = Append(@, k.made + 1),
                 !.listeners = IF signal /\ ~aborted
                               THEN @ \cup {k.made + 1} ELSE @]
  ELSE IF k.buffer = << >>
  THEN [k EXCEPT !.pc = "returned", !.result = None]
  ELSE LET element == Head(k.buffer)
           rest == [k EXCEPT !.buffer = Tail(@)]
       IN IF element.value = Tombstone
          THEN IF rest.closed
               THEN [rest EXCEPT !.pc = "returned", !.result = None]
               ELSE KafkaLoop(rest, FALSE)
          ELSE [rest EXCEPT !.pc = "returned",
                            !.result = [kind |-> "envelope",
                                        offset |-> element.offset,
                                        event |-> element.value]]

\* consumer.consume({ signal }) or consumer.consume()
KafkaConsume ==
  /\ res.pc = "idle"
  /\ res' = IF res.closed \/ (arg.signal /\ aborted)
            THEN [res EXCEPT !.pc = "returned", !.result = None,
                             !.cancelledInWait = FALSE]
            ELSE KafkaLoop([res EXCEPT !.cancelledInWait = FALSE], arg.signal)
  /\ UNCHANGED <<cap, now, logs, mutex, ec, aborted, envelope, migVars, rmVars,
                 topicVars, arg>>

\* eachMessage: the message is buffered and the oldest resumer is called.
KafkaEachMessage(value) ==
  /\ res.sent < cap.events
  /\ res' = [res EXCEPT
               !.sent = @ + 1,
               !.buffer = Append(@, [offset |-> res.sent, value |-> value]),
               !.resumers = IF @ = << >> THEN @ ELSE Tail(@),
               !.resolved = IF res.resumers = << >> THEN @
                            ELSE @ \cup {Head(res.resumers)}]
  /\ UNCHANGED <<cap, now, logs, mutex, ec, aborted, envelope, migVars, rmVars,
                 topicVars, arg>>

\* The wait of consume is over: the loop tests its condition again.
KafkaResumed ==
  /\ res.pc = "waiting"
  /\ res.mine \in res.resolved
  /\ res' = KafkaLoop(res, res.signal)
  /\ UNCHANGED <<cap, now, logs, mutex, ec, aborted, envelope, migVars, rmVars,
                 topicVars, arg>>

\* The signal aborts: every abort listener calls its resumer.
KafkaAbort ==
  /\ ~aborted
  /\ aborted' = TRUE
  /\ res' = [res EXCEPT
               !.resolved = @ \cup res.listeners,
               !.cancelledInWait =
                  res.pc = "waiting" /\ res.mine \in res.listeners]
  /\ UNCHANGED <<cap, now, logs, mutex, ec, envelope, migVars, rmVars,
                 topicVars, arg>>

\* The task releases what consume returned: an envelope is acked, which
\* commits the offset after the message.
KafkaRelease ==
  /\ res.pc = "returned"
  /\ res' = [res EXCEPT
               !.pc = "idle",
               !.result = None,
               !.committed = IF res.result.kind = "envelope"
                             THEN res.result.offset + 1 ELSE @]
  /\ UNCHANGED <<cap, now, logs, mutex, ec, aborted, envelope, migVars, rmVars,
                 topicVars, arg>>

\* KafkaConsumer[Symbol.asyncDispose]
KafkaDispose ==
  /\ ~res.closed
  /\ res' = [res EXCEPT
               !.closed = TRUE,
               !.resolved = @ \cup {res.resumers[k] : k \in 1 .. Len(res.resumers)},
               !.resumers = << >>]
  /\ UNCHANGED <<cap, now, logs, mutex, ec, aborted, envelope, migVars, rmVars,
                 topicVars, arg>>

NextKafka ==
  \/ KafkaConsume
  \/ \E value \in KafkaValues : KafkaEachMessage(value)
  \/ KafkaResumed
  \/ KafkaAbort
  \/ KafkaRelease
  \/ KafkaDispose

SpecKafka == InitKafka /\ [][NextKafka]_vars

-----------------------------------------------------------------------------
(* PersonalTopicFactory over the in-memory substrate: one key store, one    *)
(* topic, one producer and one consumer of an anonymous group that starts   *)
(* from the beginning.  res is the key store, the inner log, the consumer's  *)
(* offset and its current call.  A key pair is the number of the generate   *)
(* call that made it; an id without a key maps to NoKey.                    *)

MaxKeys == 3

PersonIds == {"jane", "john"}
PersonalValues == {"x", "y"}
\* What idExtractor may return for an event.
IdLists == {<< >>, <<"jane">>, <<"john">>, <<"jane", "john">>, <<"jane", "jane">>}

NoKey == 0
Thrown == [kind |-> "thrown"]

\* V8Codec: the bytes of a value, and the value of bytes.
Value(v) == [kind |-> "value", of |-> v]
Serialize(v) == [kind |-> "v8", of |-> v]
Deserialize(b) == IF b.kind = "v8" THEN Value(b.of) ELSE Thrown

\* PublicKey.encrypt: bytes that only the private key of the pair opens.
Encrypt(key, data) == [kind |-> "rsa", key |-> key, of |-> data]

\* PrivateKey.decrypt: privateDecrypt throws on bytes that another key, or no
\* key, has made.
Decrypt(key, data) ==
  IF data.kind = "rsa" /\ data.key = key THEN data.of ELSE Thrown

\* PersonalProducer.produce, lines 193-197: the keys applied from the last id
\* to the first.
RECURSIVE EncryptAll(_, _, _)
EncryptAll(keys, i, data) ==
  IF i = 0 THEN data ELSE EncryptAll(keys, i - 1, Encrypt(keys[i], data))

\* PersonalConsumer.consume, lines 145-149: the keys applied from the first id
\* to the last, then the deserializer.
RECURSIVE DecryptAll(_, _, _)
DecryptAll(pkeys, i, data) ==
  IF data = Thrown THEN Thrown
  ELSE IF i > Len(pkeys) THEN Deserialize(data)
  ELSE DecryptAll(pkeys, i + 1, Decrypt(pkeys[i], data))

KeysOf(store, ids) == [i \in 1 .. Len(ids) |-> store[ids[i]]]

InitPersonal ==
  /\ cap = [src |-> 0, calls |-> 0, ticks |-> 0, events |-> MaxEvents - 1]
  /\ MigUnused
  /\ RmUnused
  /\ TopicUnused
  /\ now = 0
  /\ logs = << >>
  /\ mutex = << >>
  /\ ec = << >>
  /\ aborted = FALSE
  /\ envelope = NoEnvelope
  /\ arg \in [recreate : BOOLEAN]
  /\ res = [store |-> [id \in PersonIds |-> NoKey], made |-> 0,
            log |-> << >>, produced |-> << >>, offset |-> 0,
            pc |-> "idle", result |-> None, at |-> 0,
            seen |-> [id \in PersonIds |-> NoKey], skipped |-> {}]

\* InMemoryKeyStore.create: a new pair replaces whatever the id had.  With
\* arg.recreate FALSE the scenario creates no key for an id that an event of
\* the log carries.
KeyCreate(id) ==
  /\ res.made < MaxKeys
  /\ arg.recreate \/ \A k \in 1 .. Len(res.log) :
                       \A i \in 1 .. Len(res.log[k].ids) : res.log[k].ids[i] # id
  /\ res' = [res EXCEPT !.made = @ + 1, !.store[id] = res.made + 1]
  /\ UNCHANGED <<cap, now, logs, mutex, ec, aborted, envelope, migVars, rmVars,
                 topicVars, arg>>

\* InMemoryKeyStore.delete
KeyDelete(id) ==
  /\ res.store[id] # NoKey
  /\ res' = [res EXCEPT !.store[id] = NoKey]
  /\ UNCHANGED <<cap, now, logs, mutex, ec, aborted, envelope, migVars, rmVars,
                 topicVars, arg>>

\* PersonalProducer.produce of an event whose idExtractor gives ids.
PersonalProduce(v, ids) ==
  /\ Len(res.log) < cap.events
  /\ LET keys == KeysOf(res.store, ids)
     IN IF \E i \in 1 .. Len(ids) : keys[i] = NoKey
        THEN res' = res
        ELSE res' = [res EXCEPT
                       !.log = Append(@, [ids |-> ids,
                                          event |-> EncryptAll(keys, Len(ids), Serialize(v))]),
                       !.produced = Append(@, v)]
  /\ UNCHANGED <<cap, now, logs, mutex, ec, aborted, envelope, migVars, rmVars,
                 topicVars, arg>>

\* PersonalConsumer.consume from the inner consume to its return, its throw,
\* or the inner consume's wait for an event.
RECURSIVE PersonalLoop(_)
PersonalLoop(p) ==
  IF p.offset >= Len(p.log)
  THEN [p EXCEPT !.pc = "waiting"]
  ELSE LET inner == p.log[p.offset + 1]
           pkeys == KeysOf(p.store, inner.ids)
       IN IF \E i \in 1 .. Len(pkeys) : pkeys[i] = NoKey
          THEN PersonalLoop([p EXCEPT !.offset = @ + 1,
                                      !.skipped = @ \cup {p.offset + 1}])
          ELSE LET event == DecryptAll(pkeys, 1, inner.event)
               IN [p EXCEPT !.pc = IF event = Thrown THEN "thrown" ELSE "returned",
                            !.result = IF event = Thrown THEN Thrown
                                       ELSE [kind |-> "envelope", event |-> event.of],
                            !.at = p.offset + 1,
                            !.seen = p.store]

PersonalConsume ==
  /\ res.pc = "idle"
  /\ res' = PersonalLoop([res EXCEPT !.result = None, !.at = 0])
  /\ UNCHANGED <<cap, now, logs, mutex, ec, aborted, envelope, migVars, rmVars,
                 topicVars, arg>>

\* The inner consume of a waiting call is served.
PersonalResumed ==
  /\ res.pc = "waiting"
  /\ res.offset < Len(res.log)
  /\ res' = PersonalLoop(res)
  /\ UNCHANGED <<cap, now, logs, mutex, ec, aborted, envelope, migVars, rmVars,
                 topicVars, arg>>

\* The task disposes the envelope it was given: the inner acker advances the
\* offset.
PersonalRelease ==
  /\ res.pc = "returned"
  /\ res' = [res EXCEPT !.pc = "idle", !.offset = @ + 1]
  /\ UNCHANGED <<cap, now, logs, mutex, ec, aborted, envelope, migVars, rmVars,
                 topicVars, arg>>

NextPersonal ==
  \/ \E id \in PersonIds : KeyCreate(id)
  \/ \E id \in PersonIds : KeyDelete(id)
  \/ \E v \in PersonalValues, ids \in IdLists : PersonalProduce(v, ids)
  \/ PersonalConsume
  \/ PersonalResumed
  \/ PersonalRelease

SpecPersonal == InitPersonal /\ [][NextPersonal]_vars

----------------------------------------------------------------------------
(* ReadModel.start with handlers that succeed and a signal that never       *)
(* aborts, under the scheduling of the event loop: a callback that is ready  *)
(* runs, time passes while a timer is pending, and a handler settles.       *)

\* A next() that takes an event waits for at most one timeout of its peeks,
\* and so does the one that finds every topic exhausted.
LiveTicks(events) == 2 * events + 2

ScenariosRMLive ==
  {[src |-> 0, calls |-> 0, ticks |-> LiveTicks(MaxEvents - 1), events |-> MaxEvents - 1]}

InitRMLive == InitRMOf(ScenariosRMLive)

\* The clock advances to let a pending timer expire.
TickLive ==
  /\ ArmedTimers # {}
  /\ \A d \in ArmedTimers : now < d
  /\ Tick

NextRMLive ==
  \/ TickLive
  \/ \E i \in Ingestors : RmProduce(i)
  \/ RmStart
  \/ RmNext
  \/ \E i \in Ingestors : RmDeliver(i)
  \/ \E i \in Ingestors : RmPeekTimeout(i)
  \/ RmChoose
  \/ RmWaitAny
  \/ RmTake
  \/ RmHandlerDone("ok")
  \/ RmDispose
  \/ RmOnCatchUp
  \/ RmResolve("done")
  \/ \E i \in Ingestors : TimerFire(i)

FairnessRM ==
  /\ WF_vars(TickLive)
  /\ WF_vars(RmStart)
  /\ WF_vars(RmNext)
  /\ \A i \in Ingestors : WF_vars(RmDeliver(i))
  /\ \A i \in Ingestors : WF_vars(RmPeekTimeout(i))
  /\ WF_vars(RmChoose)
  /\ WF_vars(RmWaitAny)
  /\ WF_vars(RmTake)
  /\ WF_vars(RmHandlerDone("ok"))
  /\ WF_vars(RmDispose)
  /\ WF_vars(RmOnCatchUp)
  /\ WF_vars(RmResolve("done"))
  /\ \A i \in Ingestors : WF_vars(TimerFire(i))

SpecRMLive == InitRMLive /\ [][NextRMLive]_vars /\ FairnessRM

----------------------------------------------------------------------------
(* The migration under the scheduling of the event loop, its signal never   *)
(* aborted.                                                                 *)

NextLive ==
  \/ TickLive
  \/ \E m \in Msgs : SrcProduce(m)
  \/ \E c \in Callers : ProducerCall(c)
  \/ \E c \in Callers : ProducerResolve(c)
  \/ MigOpenConsumer
  \/ MigOpenProducer
  \/ MigConsume
  \/ MigDeliver
  \/ MigTransform
  \/ MigProduce
  \/ MigProduceFail
  \/ MigNack
  \/ MigDispose
  \/ TimerFire(1)

FairnessMig ==
  /\ WF_vars(TickLive)
  /\ \A c \in Callers : WF_vars(ProducerResolve(c))
  /\ WF_vars(MigOpenConsumer)
  /\ WF_vars(MigOpenProducer)
  /\ WF_vars(MigConsume)
  /\ WF_vars(MigDeliver)
  /\ WF_vars(MigTransform)
  /\ WF_vars(MigProduce)
  /\ WF_vars(MigNack)
  /\ WF_vars(MigDispose)
  /\ WF_vars(TimerFire(1))

SpecLive == Init /\ [][NextLive]_vars /\ FairnessMig

----------------------------------------------------------------------------
(* RecordSpec.assert: the validation of a value against a record schema     *)
(* whose fields are String, Number or String?.                              *)

MaxFields == 2

DeclaredNames == {"a", "b", "c"}
FieldSpecs == {PrimitiveSpec("String"), PrimitiveSpec("Number"),
               OptionalSpec(PrimitiveSpec("String"))}

\* Sequences of at most n pairwise different elements of S
DistinctSeqs(S, n) ==
  {q \in UNION {[1 .. k -> S] : k \in 0 .. n} :
     \A i, j \in 1 .. Len(q) : i # j => q[i] # q[j]}

RecordSpecs ==
  UNION {{RecordSpec(names, specs) : specs \in [1 .. Len(names) -> FieldSpecs]} :
           names \in DistinctSeqs(DeclaredNames, MaxFields)}

\* The own keys of a value in the order of Reflect.ownKeys: strings, then symbols
StringKey(name) == [symbol |-> FALSE, name |-> name]
SymbolKey == [symbol |-> TRUE, name |-> "Symbol()"]
OwnKeys == {StringKey(n) : n \in DeclaredNames} \cup {SymbolKey}
KeyLists ==
  {q \in DistinctSeqs(OwnKeys, MaxFields) :
     \A i, j \in 1 .. Len(q) : (i < j /\ q[i].symbol) => q[j].symbol}

FieldValues == {Null, Str("s"), Num(1)}

\* An object: its prototype (Object.prototype or null: "plain") and its own
\* properties in key order.
Object(proto, keys, values) ==
  [kind |-> "object", proto |-> proto, keys |-> keys, values |-> values]

RecordValues ==
  FieldValues
    \cup {Object("complex", << >>, << >>)}
    \cup UNION {{Object("plain", keys, values) :
                   values \in [1 .. Len(keys) -> FieldValues]} : keys \in KeyLists}

\* new AssertionError(message, { cause }): the cause is absent (<< >>), one
\* error, or the list of several errors.
AssertionError(message, cause) == [message |-> message, cause |-> cause]

\* A check that takes no field for optional.
NeverOptional(spec) == FALSE

\* TypeSpec.isOptional
IsOptional(spec) == spec.type = "Optional"

\* assert of String, Number and Optional: << >> when it returns, else the
\* error it throws.
RECURSIVE SpecAssert(_, _)
SpecAssert(spec, value) ==
  CASE spec.type = "String" ->
         IF value.kind = "string" THEN << >>
         ELSE << AssertionError("is not a string", << >>) >>
    [] spec.type = "Number" ->
         IF value.kind = "number" THEN << >>
         ELSE << AssertionError("is not a number", << >>) >>
    [] spec.type = "Optional" ->
         IF value.kind = "null" THEN << >> ELSE SpecAssert(spec.spec[1], value)

\* this.spec[key] for a declared key
FieldOf(spec, name) ==
  spec.spec[CHOOSE k \in 1 .. Len(spec.names) : spec.names[k] = name]

Without(q, x) == SelectSeq(q, LAMBDA y : y # x)

\* The loop of assert over the own keys from the k-th on: requiredKeys (in
\* the insertion order of the Set) and fieldAssertions as the loop leaves them.
RECURSIVE FieldLoop(_, _, _, _, _, _)
FieldLoop(spec, value, k, requiredKeys, optionalKeys, fieldAssertions) ==
  IF k > Len(value.keys)
  THEN [requiredKeys |-> requiredKeys, fieldAssertions |-> fieldAssertions]
  ELSE LET key == value.keys[k]
           known == ~key.symbol /\ key.name \notin optionalKeys
                      /\ \E r \in 1 .. Len(requiredKeys) : requiredKeys[r] = key.name
           thrown ==
             IF key.symbol THEN << AssertionError("is a symbol key", << >>) >>
             ELSE IF key.name \notin optionalKeys /\ ~known
               THEN << AssertionError("is not a defined key", << >>) >>
             ELSE SpecAssert(FieldOf(spec, key.name), value.values[k])
       IN FieldLoop(spec, value, k + 1,
                    IF known THEN Without(requiredKeys, key.name) ELSE requiredKeys,
                    optionalKeys,
                    IF thrown = << >> THEN fieldAssertions
                    ELSE Append(fieldAssertions,
                                AssertionError("has invalid \"" \o key.name \o "\" field",
                                               thrown)))

\* RecordSpec.assert: << >> when it returns, else the error it throws
RecordAssert(spec, value) ==
  IF value.kind # "object" THEN << AssertionError("is not an object", << >>) >>
  ELSE IF value.proto # "plain"
    THEN << AssertionError("has a complex prototype chain", << >>) >>
  ELSE LET optionals == {k \in 1 .. Len(spec.names) : IsOptional(spec.spec[k])}
           optionalKeys == {spec.names[k] : k \in optionals}
           requiredKeys == SelectSeq(spec.names, LAMBDA n : n \notin optionalKeys)
           loop == FieldLoop(spec, value, 1, requiredKeys, optionalKeys, << >>)
           missing == [k \in 1 .. Len(loop.requiredKeys) |->
                         AssertionError("is missing required \""
                                          \o loop.requiredKeys[k] \o "\" field", << >>)]
           fieldAssertions == loop.fieldAssertions \o missing
       IN CASE Len(fieldAssertions) = 0 -> << >>
            [] Len(fieldAssertions) = 1 -> << fieldAssertions[1] >>
            [] OTHER -> << AssertionError("has multiple issues", fieldAssertions) >>

NotAsserted == [asserted |-> FALSE]

InitRecord ==
  /\ cap = [src |-> 0, calls |-> 0, ticks |-> 0, events |-> 0]
  /\ MigUnused
  /\ RmUnused
  /\ TopicUnused
  /\ now = 0
  /\ logs = << >>
  /\ mutex = << >>
  /\ ec = << >>
  /\ aborted = FALSE
  /\ envelope = NoEnvelope
  /\ arg \in [spec : RecordSpecs, value : RecordValues]
  /\ res = NotAsserted

\* spec.assert(value)
RecordValidate ==
  /\ res = NotAsserted
  /\ res' = [asserted |-> TRUE, thrown |-> RecordAssert(arg.spec, arg.value)]
  /\ UNCHANGED <<cap, now, logs, mutex, ec, aborted, envelope, migVars, rmVars,
                 topicVars, arg>>

NextRecord == RecordValidate

SpecRecord == InitRecord /\ [][NextRecord]_vars

----------------------------------------------------------------------------
(* Two Migrator instances for the same pair of topics "src" and "dst" over  *)
(* the in-memory substrate: each runs the loop of Migrator.run, nothing     *)
(* fails and nothing is disposed.  res holds, for each migrator, where its  *)
(* loop is, the envelope it holds, the outputs it has still to produce and  *)
(* the number of envelopes it has disposed.                                 *)

Migrators == 1 .. 2

\* ConsumerGroup.join(`${sourceTopic.name}-${destinationTopic.name}`, StartFrom.Beginning)
CoopGroup == ConsumerGroupJoin(MigGroup, "BEGINNING")

\* The source messages whose transform does not throw
PlainMsgs == {m \in Msgs : ~MigrationThrows(m)}

InitCoop ==
  /\ cap = [src |-> MaxSrc, calls |-> 0, ticks |-> 1, events |-> 0]
  /\ MigUnused
  /\ RmUnused
  /\ TopicUnused
  /\ now = 0
  /\ logs = [t \in {"src", "dst"} |-> << >>]
  /\ mutex = << >>
  /\ ec = [k \in Migrators |-> EventConsumerInit]
  /\ aborted = FALSE
  /\ envelope = NoEnvelope
  /\ arg = << >>
  /\ res = [pc |-> [k \in Migrators |-> "idle"],
            envelope |-> [k \in Migrators |-> NoEnvelope],
            outputs |-> [k \in Migrators |-> << >>],
            disposed |-> [k \in Migrators |-> 0]]

\* EventProducer.produce on the source type
CoopSrcProduce(m) ==
  /\ Len(logs["src"]) < cap.src
  /\ logs' = Push("src", [timestamp |-> now, message |-> m, key |-> Keyer(m)])
  /\ UNCHANGED <<cap, now, mutex, ec, aborted, envelope, migVars, rmVars,
                 topicVars, pureVars>>

\* Migrator.run up to the loop: the consumer of the group is obtained from
\* the source topic, the EventConsumer and the destination producer are made.
CoopRun(k) ==
  /\ res.pc[k] = "idle"
  /\ mutex' = TopicConsumer(mutex, CoopGroup, logs["src"])
  /\ res' = [res EXCEPT !.pc[k] = "loop"]
  /\ UNCHANGED <<cap, now, logs, ec, aborted, envelope, migVars, rmVars,
                 topicVars, arg>>

\* Loop head: EventConsumer.consume, InMemoryConsumer.consume, InMemoryMutex.get
CoopConsume(k) ==
  /\ res.pc[k] = "loop"
  /\ ec' = [ec EXCEPT ![k] = ConsumeStart(@, now, FALSE)]
  /\ mutex' = [mutex EXCEPT ![CoopGroup.name] = MutexGet(@, k)]
  /\ res' = [res EXCEPT !.pc[k] = "consuming"]
  /\ UNCHANGED <<cap, now, logs, aborted, envelope, migVars, rmVars, topicVars,
                 arg>>

\* InMemoryConsumer.consume resolves with the event at the guarded offset
CoopDeliver(k) ==
  /\ res.pc[k] = "consuming"
  /\ MutexGranted(mutex[CoopGroup.name], k)
  /\ mutex[CoopGroup.name].state < Len(logs["src"])
  /\ LET raw == TopicGet(logs["src"], mutex[CoopGroup.name].state)
     IN /\ ec' = [ec EXCEPT ![k] = ConsumeDelivered(@, now, raw)]
        /\ res' = [res EXCEPT !.pc[k] = "transform",
                              !.envelope[k] = EnvelopeMap(NewEnvelope(raw, raw.key))]
  /\ UNCHANGED <<cap, now, logs, mutex, aborted, envelope, migVars, rmVars,
                 topicVars, arg>>

\* this.#migration(envelope.event.message)
CoopTransform(k) ==
  /\ res.pc[k] = "transform"
  /\ res' = [res EXCEPT !.pc[k] = "produce",
                        !.outputs[k] = Migration(res.envelope[k].event.message)]
  /\ UNCHANGED <<cap, now, logs, mutex, ec, aborted, envelope, migVars, rmVars,
                 topicVars, arg>>

\* destinationProducer.produce for the next output, or the end of the for loop
CoopProduce(k) ==
  /\ res.pc[k] = "produce"
  /\ IF res.outputs[k] = << >>
     THEN res' = [res EXCEPT !.pc[k] = "dispose"] /\ UNCHANGED logs
     ELSE /\ logs' = Push("dst", Replica(res.envelope[k], Head(res.outputs[k])))
          /\ res' = [res EXCEPT !.outputs[k] = Tail(@)]
  /\ UNCHANGED <<cap, now, mutex, ec, aborted, envelope, migVars, rmVars,
                 topicVars, arg>>

\* finally: await envelope[Symbol.asyncDispose]()
CoopDispose(k) ==
  /\ res.pc[k] = "dispose"
  /\ mutex' = [mutex EXCEPT ![CoopGroup.name] = EnvelopeDispose(res.envelope[k], @)]
  /\ res' = [res EXCEPT !.pc[k] = "loop", !.envelope[k] = NoEnvelope,
                        !.disposed[k] = @ + 1]
  /\ UNCHANGED <<cap, now, logs, ec, aborted, envelope, migVars, rmVars,
                 topicVars, arg>>

NextCoop ==
  \/ Tick
  \/ \E m \in PlainMsgs : CoopSrcProduce(m)
  \/ \E k \in Migrators :
       \/ CoopRun(k)
       \/ CoopConsume(k)
       \/ CoopDeliver(k)
       \/ CoopTransform(k)
       \/ CoopProduce(k)
       \/ CoopDispose(k)
       \/ TimerFire(k)

SpecCoop == InitCoop /\ [][NextCoop]_vars

----------------------------------------------------------------------------
(* InMemoryMutex as the chain of promises it is.  res.promises holds the    *)
(* promises #state has been, the first being Promise.resolve(initialState); *)
(* res.guards holds one entry for each call of get: the promise it awaits,  *)
(* the promise its release resolves, guard.state, the state the guard was   *)
(* made with (seen) and the state its first release left (left).            *)

MaxGets == 3

MutexStates == 0 .. 1

Pending == [settled |-> FALSE]
Resolved(value) == [settled |-> TRUE, value |-> value]

\* A get that awaits the first promise of the mutex, whatever #state is.
InitialPromise(chain) == 1

\* const oldPromise = this.#state
OldPromise(chain) == Len(chain)

InitMutex ==
  /\ cap = [src |-> 0, calls |-> MaxGets, ticks |-> 0, events |-> 0]
  /\ MigUnused
  /\ RmUnused
  /\ TopicUnused
  /\ now = 0
  /\ logs = << >>
  /\ mutex = << >>
  /\ ec = << >>
  /\ aborted = FALSE
  /\ envelope = NoEnvelope
  /\ arg \in [initialState : MutexStates]
  /\ res = [promises |-> << Resolved(arg.initialState) >>, guards |-> << >>]

\* InMemoryMutex.get up to its await: #state becomes a new pending promise
\* whose resolver the guard will hold.
InMemoryMutexGet ==
  /\ Len(res.guards) < cap.calls
  /\ res' = [promises |-> Append(res.promises, Pending),
             guards |-> Append(res.guards,
                               [st |-> "waiting",
                                awaits |-> OldPromise(res.promises),
                                releases |-> Len(res.promises) + 1,
                                state |-> 0, seen |-> 0, left |-> 0])]
  /\ UNCHANGED <<cap, now, logs, mutex, ec, aborted, envelope, migVars, rmVars,
                 topicVars, arg>>

\* `await oldPromise` completes and get returns the guard
InMemoryMutexGuardNew(g) ==
  /\ g <= Len(res.guards)
  /\ res.guards[g].st = "waiting"
  /\ res.promises[res.guards[g].awaits].settled
  /\ LET state == res.promises[res.guards[g].awaits].value
     IN res' = [res EXCEPT !.guards[g].st = "held",
                           !.guards[g].state = state,
                           !.guards[g].seen = state]
  /\ UNCHANGED <<cap, now, logs, mutex, ec, aborted, envelope, migVars, rmVars,
                 topicVars, arg>>

\* The holder of a guard assigns guard.state
GuardSetState(g, state) ==
  /\ g <= Len(res.guards)
  /\ res.guards[g].st \in {"held", "released"}
  /\ res.guards[g].state # state
  /\ res' = [res EXCEPT !.guards[g].state = state]
  /\ UNCHANGED <<cap, now, logs, mutex, ec, aborted, envelope, migVars, rmVars,
                 topicVars, arg>>

\* InMemoryMutexGuard[Symbol.asyncDispose]: this.#release(this.state); the
\* resolver of a promise has an effect the first time it is called.
GuardDispose(g) ==
  /\ g <= Len(res.guards)
  /\ res.guards[g].st \in {"held", "released"}
  /\ LET p == res.guards[g].releases
     IN IF res.promises[p].settled
        THEN res' = res
        ELSE res' = [res EXCEPT !.promises[p] = Resolved(res.guards[g].state),
                                !.guards[g].st = "released",
                                !.guards[g].left = res.guards[g].state]
  /\ UNCHANGED <<cap, now, logs, mutex, ec, aborted, envelope, migVars, rmVars,
                 topicVars, arg>>

NextMutex ==
  \/ InMemoryMutexGet
  \/ \E g \in 1 .. MaxGets : InMemoryMutexGuardNew(g)
  \/ \E g \in 1 .. MaxGets : \E state \in MutexStates : GuardSetState(g, state)
  \/ \E g \in 1 .. MaxGets : GuardDispose(g)

SpecMutex == InitMutex /\ [][NextMutex]_vars

----------------------------------------------------------------------------
(* Properties of the migration *)

Offset == mutex[MigGroup].state
Called(c) == callers[c].st # "idle"

\* C1: every call of run on one Migrator returns the same promise, and the
\* source consumer, the destination producer and the replication loop are
\* created at most once.
C1_RunIdempotent ==
  /\ \A c, d \in Callers :
        Called(c) /\ Called(d) => callers[c].promise = callers[d].promise
  /\ \A c \in Callers : Called(c) => callers[c].promise = running
  /\ promises <= 1
  /\ opened.consumers <= 1
  /\ opened.producers <= 1
  /\ opened.loops <= 1

\* Two calls are pending on the unresolved promise while the loop runs.
C1_Witness ==
  /\ callers[1].st = "waiting"
  /\ callers[2].st = "waiting"
  /\ ~RunFulfilled
  /\ opened.loops = 1

ImagesOf(raw) ==
  LET out == Migration(raw.message)
  IN [i \in 1 .. Len(out) |->
        [timestamp |-> raw.timestamp, message |-> out[i], key |-> raw.key]]

\* The images written so far for the event the loop is working on (or was
\* working on when it failed).
InProgress ==
  IF mpc \in {"produce", "dispose", "nack", "rethrow", "failedEarly", "failedLate"}
  THEN LET raw == logs["src"][Offset + 1]
       IN Prefix(ImagesOf(raw), Len(Migration(raw.message)) - Len(outputs))
  ELSE << >>

Migrated == SelectSeq(logs["dst"], LAMBDA r : r.message # DirectMsg)

\* C3: the destination topic holds, for the source events consumed, exactly the
\* outputs of transform in the order it yields them, each with the timestamp and
\* key of its source event, and the images of different source events in source
\* order (for the event being worked on: the outputs produced so far).
C3_MigrationFidelity ==
  Migrated = Concat([i \in 1 .. Offset |-> ImagesOf(logs["src"][i])]) \o InProgress

\* Two source events with different timestamps were replicated, two outputs each.
C3_Witness ==
  /\ Offset = 2
  /\ Len(Migrated) = 4
  /\ logs["src"][1].timestamp # logs["src"][2].timestamp
  /\ logs["src"][1].key # 0

\* C10: after a transform or produce failure before catch-up the future of run
\* does not resolve as ready.
C10_EarlyFailureNotReady == mpc = "failedEarly" => ~RunFulfilled

----------------------------------------------------------------------------
(* Properties of the read model *)

RmOffset(i) == mutex[GroupOf(i)].state
RmFailed == rpc \in {"failed", "failedEarly"}
HandledOk(i, k) ==
  \E p \in 1 .. Len(handled) :
    handled[p].i = i /\ handled[p].message = k /\ handled[p].st = "ok"

\* C4: when the promise of ReadModel.start has resolved (the signal not having
\* aborted), the handler has completed for every event that was in an ingested
\* topic when start was called.
C4_ReadyAfterHistory ==
  rmReady /\ ~aborted =>
    \A i \in Ingestors : \A k \in 1 .. started[i] : HandledOk(i, k)

\* C5: whatever the interleaving of consumes, deliveries, idle timers and
\* aborts, each EventConsumer has called onCatchUp once if any catch-up trigger
\* has fired, and never more than once.
C5_CatchUpOnce ==
  \A i \in Ingestors :
    /\ ec[i].calls = (IF ec[i].triggers > 0 THEN 1 ELSE 0)
    /\ ec[i].caughtUp <=> ec[i].calls = 1

\* A consumer whose catch-up was triggered three times: by recent events, the
\* idle timer or the abort signal.
C5_Witness ==
  \E i \in Ingestors : ec[i].triggers >= 3 /\ aborted /\ ec[i].calls = 1

\* C6: the handler invocations for the events of one topic occur in the order
\* in which the events were appended to it.
C6_PerTopicOrder ==
  \A p, q \in 1 .. Len(handled) :
    p < q /\ handled[p].i = handled[q].i => handled[p].message < handled[q].message

\* Both events of one topic and an event of the other topic were handled.
C6_Witness ==
  /\ Len(handled) = 3
  /\ \E p, q, r \in 1 .. 3 :
       /\ p < q
       /\ handled[p].i = handled[q].i
       /\ handled[r].i # handled[p].i
  /\ \A p \in 1 .. 3 : handled[p].st = "ok"

\* Whether the invocation at position p of handled respects event k of ingestor
\* j, given that both were in their topics at start and the timestamps are
\* PeekTimeoutMs apart.
RespectsEarlier(p, j, k) ==
  LET h == handled[p]
      e1 == logs[TopicOf(j)][k]
      e2 == logs[TopicOf(h.i)][h.message]
  IN (/\ j # h.i
      /\ h.message <= started[h.i]
      /\ e1.timestamp + PeekTimeoutMs <= e2.timestamp)
     => \E q \in 1 .. (p - 1) : handled[q].i = j /\ handled[q].message = k

C8_AckAfterHandler ==
  /\ \A i \in Ingestors : \A k \in 1 .. RmOffset(i) : HandledOk(i, k)
  /\ \A p \in 1 .. Len(handled) :
       handled[p].st = "failed" =>
         /\ RmOffset(handled[p].i) < handled[p].message
         /\ RmFailed => Head(mutex[GroupOf(handled[p].i)].chain) = Leaked

\* One envelope was acked after its handler, the next was nacked after its
\* handler failed, and take has completed.
C8_Witness ==
  /\ RmFailed
  /\ \E p, q \in 1 .. Len(handled) :
       /\ handled[p].st = "ok"
       /\ handled[q].st = "failed"
       /\ handled[p].i = handled[q].i
       /\ RmOffset(handled[p].i) = handled[p].message

----------------------------------------------------------------------------
(* Properties of the in-memory substrate *)

\* C9: with the in-memory substrate a nacked envelope is delivered again by a
\* subsequent consume on its group: once the nacked envelope is disposed and
\* no envelope is outstanding, the consume at the head of the group's queue can
\* be served, so the group is not blocked.
C9_NackedRedelivered ==
  \A g \in DOMAIN mutex :
    LET members == {c \in Clients : /\ clients[c].st # "unopened"
                                   /\ clients[c].group.name = g}
    IN (/\ \E c \in members : clients[c].st = "consuming"
        /\ \A c \in members : clients[c].st # "holding")
       => \E c \in members : MutexGranted(mutex[g], c)

\* The messages handed to task c, in the order of their delivery.
DeliveredTo(c) == [k \in 1 .. Len(delivered[c]) |-> delivered[c][k].message]

FromBeginningAlone(c) ==
  /\ clients[c].st # "unopened"
  /\ clients[c].group = ConsumerGroupAnonymous(c, "BEGINNING")

\* C15: a consumer of a fresh anonymous group that starts from the beginning
\* is handed the events of the topic in the order of their production, each
\* once, those produced before it was opened included; while every envelope
\* has been acknowledged its next consume is never kept waiting by the group,
\* and the group's offset counts the acknowledged events.
C15_AnonymousReceivesAll ==
  \A c \in Clients :
    FromBeginningAlone(c) =>
      LET d == DeliveredTo(c)
          m == mutex[clients[c].group.name]
          acked == m.chain = << >> \/ Head(m.chain) # Leaked
      IN /\ Len(d) <= Len(logs["T"])
         /\ \A k \in 1 .. Len(d) : d[k] = logs["T"][k].message
         /\ acked =>
              /\ Len(d) = m.state + (IF clients[c].st = "holding" THEN 1 ELSE 0)
              /\ clients[c].st = "consuming" => MutexGranted(m, c)

\* All of a topic that held an event before the consumer was opened and was
\* given another afterwards has been handed to the consumer and acknowledged.
C15_Witness ==
  \E c \in Clients :
    /\ FromBeginningAlone(c)
    /\ clients[c].at >= 1
    /\ Len(logs["T"]) > clients[c].at
    /\ Len(DeliveredTo(c)) = Len(logs["T"])
    /\ clients[c].st = "idle"
    /\ mutex[clients[c].group.name].state = Len(logs["T"])

\* C20: an envelope released without a prior nack has been acked by its
\* release; an envelope on which nack was called is not acked by its release,
\* and no envelope is acked before it is released.
C20_ReleaseAcksUnlessNacked ==
  \A c \in Clients : \A k \in 1 .. Len(delivered[c]) :
    LET e == delivered[c][k]
    IN /\ e.released => (e.acked <=> ~e.nackCalled)
       /\ ~e.released => ~e.acked

\* One task has released an envelope it had not nacked, then one it had.
C20_Witness ==
  \E c \in Clients :
    /\ Len(delivered[c]) = 2
    /\ delivered[c][1].released /\ ~delivered[c][1].nackCalled
    /\ delivered[c][1].acked
    /\ delivered[c][2].released /\ delivered[c][2].nackCalled
    /\ ~delivered[c][2].acked

Opened == {c \in Clients : clients[c].st # "unopened"}
Members(g) == {c \in Opened : clients[c].group.name = g}
\* The messages handed to the members of a group
MessagesOf(g) ==
  UNION {{delivered[c][k].message : k \in 1 .. Len(delivered[c])} :
           c \in Members(g)}
\* C22: the topic of a name is one log for the producer and every consumer;
\* the members of one group share one offset, so no event is handed to two
\* of them (or twice to one) and the events handed to the group are
\* consecutive events of the log; a consumer alone in its group is handed
\* every event from its start offset on, whatever other groups consume.
C22_GroupsShareOffsets ==
  /\ DOMAIN logs \subseteq {"T"}
  /\ \A c, d \in Opened :
       clients[c].group.name = clients[d].group.name =>
         \A j \in 1 .. Len(delivered[c]) : \A k \in 1 .. Len(delivered[d]) :
           delivered[c][j].message = delivered[d][k].message
             => c = d /\ j = k
  /\ \A g \in DOMAIN mutex :
       \E last \in {mutex[g].state, mutex[g].state + 1} :
         /\ last <= Len(logs["T"])
         /\ MessagesOf(g) = (last - Cardinality(MessagesOf(g)) + 1) .. last
  /\ \A c \in Opened :
       clients[c].group.name = ConsumerGroupAnonymous(c, "END").name =>
         LET start == StartOffset(clients[c].group.startFrom,
                                  [k \in 1 .. clients[c].at |-> k])
         IN \A k \in 1 .. Len(delivered[c]) :
              delivered[c][k].message = start + k

\* Two tasks have joined the named group after the topic was given an event:
\* one was handed the event and acked it, the other consumes and holds the
\* guard of the shared offset past that event.
C22_Witness ==
  \E c, d \in Opened :
    /\ c # d
    /\ clients[c].group.name = clients[d].group.name
    /\ clients[d].at >= 1
    /\ Len(delivered[c]) = 1 /\ delivered[c][1].acked
    /\ delivered[d] = << >>
    /\ clients[d].st = "consuming"
    /\ MutexGranted(mutex[clients[d].group.name], d)
    /\ mutex[clients[d].group.name].state = Len(logs["T"])

\* C11: after a handler has thrown before the read model had caught up, the
\* promise of ReadModel.start does not resolve with the client.
C11_HandlerFailureNotReady == rpc = "failedEarly" => ~rmReady

\* C13: once the signal given to ReadModel.start has aborted, a consume in
\* flight resolves to no envelope and next returns: no handler is invoked for
\* an envelope that a consume resolved to after the abort.
C13_NoHandlerAfterCancel ==
  \A p \in 1 .. Len(handled) : ~handled[p].cancelled

Disposed(resource) == \E k \in 1 .. Len(scope.disposed) : scope.disposed[k] = resource

\* C14: when the scope of start is disposed, every consumer opened by start
\* is closed, and the client is disposed only after all of them.
C14_ClientDisposedLast ==
  Disposed("client") =>
    \A i \in Ingestors :
      \E k \in 1 .. Len(scope.disposed) :
        /\ scope.disposed[k] = ConsumerOf(i)
        /\ \A j \in 1 .. k : scope.disposed[j] # "client"

----------------------------------------------------------------------------
(* Properties of the namespace of a read model *)

\* C12: two read models of one name, bound to the same event types, that
\* differ in a handler, an initializer, a nonce or the number of ingestors or
\* initializers have different
\* namespaces, so that the client of each holds only what its own handlers
\* wrote, for every event from the beginning of the topic.
C12_FreshNamespace ==
  (/\ arg[1] # arg[2]
   /\ \A k \in DOMAIN arg[1].ingestors \cap DOMAIN arg[2].ingestors :
        arg[1].ingestors[k].eventType = arg[2].ingestors[k].eventType) =>
    /\ Namespace(arg[1]) # Namespace(arg[2])
    /\ \A r \in res.started :
         LET client == res.clients[Namespace(arg[r])]
         IN /\ \A k \in 1 .. Len(client) : client[k].by = r
            /\ Len(client) = res.offsets[NsGroup(arg[r], 1)]

----------------------------------------------------------------------------
(* Properties of EventProducer *)

Rejected == res.last.error # "none" /\ Len(logs["T"]) = res.last.before

\* C16: produce throws and hands nothing to the topic when the event fails
\* the schema, when the producer is bound to an aggregate and the caller gave a
\* key, and when the producer is bound to an aggregate and the key derived
\* from the id is null.
C16_ProduceRejects ==
  res.last.made =>
    /\ ~SpecAccepts(arg.idSpec, res.last.id) => Rejected
    /\ arg.aggregate /\ res.last.key # Null => Rejected
    /\ (/\ arg.aggregate
        /\ res.last.key = Null
        /\ ProducerKeyer(arg.idSpec, res.last.id) = Null) => Rejected

AggregateOfStringId == arg.aggregate /\ arg.idSpec = "String"

RECURSIVE WellFormed(_)
WellFormed(s) ==
  IF s = << >> THEN TRUE
  ELSE IF IsHigh(s[1]) THEN Len(s) >= 2 /\ IsLow(s[2]) /\ WellFormed(Tail(Tail(s)))
  ELSE ~IsLow(s[1]) /\ WellFormed(Tail(s))

\* C17 as stated: the events of a producer bound to an aggregate with
\* id: String carry the encoding of their id as key, and two of them have equal
\* keys exactly when they have equal ids.
C17_KeyOfId ==
  AggregateOfStringId =>
    /\ \A k \in 1 .. Len(logs["T"]) :
         logs["T"][k].key = Bytes(Encode(logs["T"][k].message.id.val))
    /\ \A j, k \in 1 .. Len(logs["T"]) :
         logs["T"][j].message.id = logs["T"][k].message.id
           <=> logs["T"][j].key = logs["T"][k].key

\* C17, amended: the same, with different ids required to give different keys
\* only when both ids are well-formed UTF-16.
C17_KeyOfWellFormedId ==
  AggregateOfStringId =>
    /\ \A k \in 1 .. Len(logs["T"]) :
         logs["T"][k].key = Bytes(Encode(logs["T"][k].message.id.val))
    /\ \A j, k \in 1 .. Len(logs["T"]) :
         LET a == logs["T"][j]
             b == logs["T"][k]
         IN /\ a.message.id = b.message.id => a.key = b.key
            /\ (/\ WellFormed(a.message.id.val)
                /\ WellFormed(b.message.id.val)
                /\ a.message.id # b.message.id) => a.key # b.key

\* Two events with different well-formed ids, one of them a surrogate pair,
\* have been published by such a producer.
C17_Witness ==
  /\ AggregateOfStringId
  /\ Len(logs["T"]) = 2
  /\ logs["T"][1].message.id # logs["T"][2].message.id
  /\ WellFormed(logs["T"][1].message.id.val)
  /\ logs["T"][2].message.id = Str(<< HighSurrogate, LowSurrogate >>)
  /\ logs["T"][2].key = Bytes(<< 240, 144, 128, 128 >>)

----------------------------------------------------------------------------
(* Properties of TypeSpec and EventType *)

\* C19: the string form of a schema is the string form of no structurally
\* different schema (and a schema has one string form).
C19_StringIffEqual ==
  res # NotComputed =>
    \A t \in Schemas : (SpecToString(t) = res) <=> (t = arg)

Derived == res.derived.made /\ ~res.derived.error

\* C18: the topic name of an event type is that of every event type of equal
\* name, schema and nonce, and of no event type of the same name whose schema
\* or nonce differs, of those built by addFields included.
C18_TopicNameDistinct ==
  /\ res.topic # NotComputed =>
       \A t \in Schemas : \A n \in EventNonces :
         (TopicName(EventTypeNew(arg.name, t, n)) = res.topic)
           <=> (t = arg.spec /\ n = arg.nonce)
  /\ Derived =>
       /\ (\/ res.derived.type.spec # arg.spec
           \/ res.derived.type.nonce # arg.nonce)
            => res.derived.topic # TopicName(arg)
       /\ \A f \in FieldNames : \A t \in PatchTypes : \A n \in EventNonces :
            LET other == AddFields(arg, f, t, n)
            IN (\/ other.spec # res.derived.type.spec
                \/ other.nonce # res.derived.type.nonce)
                 => TopicName(other) # res.derived.topic

----------------------------------------------------------------------------
(* Properties of KafkaConsumer *)

\* C21: a consume that was waiting for a message when the signal it was
\* given aborted returns undefined: once its wait has been resumed it does not
\* wait again, and it does not return an envelope.
C21_CancelledWaitReturnsNone ==
  res.cancelledInWait =>
    /\ res.pc = "waiting" => res.mine \in res.resolved
    /\ res.pc = "returned" => res.result = None

\* C23: a PersonalConsumer never returns an event one of whose ids has no
\* private key at consume time; it acks and skips such events and returns the
\* next event whose keys all exist, decrypted to the value that was produced.
HasKeys(store, k) ==
  \A i \in 1 .. Len(res.log[k].ids) : store[res.log[k].ids[i]] # NoKey

C23_SkipsThenDecrypts ==
  /\ res.pc # "thrown"
  /\ res.pc = "returned" =>
       /\ HasKeys(res.seen, res.at)
       /\ res.result = [kind |-> "envelope", event |-> res.produced[res.at]]
  /\ \A k \in res.skipped : k <= res.offset

\* C24: with handlers that succeed and no cancellation, every event appended
\* to the topic of an ingestor is eventually passed to that ingestor's handler.
HandlerSaw(i, k) ==
  \E h \in 1 .. Len(handled) : handled[h].i = i /\ handled[h].message = k

\* The handler's record only grows and the topics only grow, so this is: at
\* every time, the events appended so far are all handled at some later time.
AllHandled ==
  \A i \in Ingestors : \A k \in 1 .. Len(logs[TopicOf(i)]) : HandlerSaw(i, k)

C24_EveryEventHandled == []<>AllHandled

\* The clock of the scenario never stops short of a pending timer.
C24_ClockRuns ==
  (ArmedTimers # {} /\ \A d \in ArmedTimers : now < d) => ENABLED Tick

C24_Witness ==
  /\ rmReady
  /\ \E i \in missed : HandlerSaw(i, Len(logs[TopicOf(i)]))
  /\ \A i \in Ingestors : \A k \in 1 .. Len(logs[TopicOf(i)]) : HandlerSaw(i, k)
  /\ Len(handled) = cap.events

\* C25: a next() that observed at least one timestamp takes the ingestor with
\* the earliest one, the smallest index among equal earliest ones, and passes
\* exactly one envelope, that ingestor's, to a handler; a next() that observed
\* none takes nothing.
Observed == {i \in Ingestors : peeks[i] = "date"}
TimeOf(i) == GetTime(pf[i].env.event.timestamp)

C25_Step ==
  /\ (rpc = "peeking" /\ rpc' # "peeking") =>
       IF Observed = {}
       THEN rpc' = "waitAny"
       ELSE /\ rpc' = "take"
            /\ chosen' \in Observed
            /\ \A j \in Observed :
                 \/ TimeOf(chosen') < TimeOf(j)
                 \/ TimeOf(chosen') = TimeOf(j) /\ chosen' <= j
  /\ (rpc = "take" /\ rpc' # "take") =>
       /\ rpc' = "handler"
       /\ handled' = Append(handled, handled'[Len(handled')])
       /\ handled'[Len(handled')].i = chosen
       /\ handled'[Len(handled')].message = pf[chosen].env.event.message
       /\ pf'[chosen] = NoPrefetch
  /\ (rpc # "take" \/ rpc' = "take") => Len(handled') = Len(handled)

C25_EarliestTaken == [][C25_Step]_vars

\* Both peeks of the first round returned the same timestamp and the first
\* ingestor's envelope went to the handler.
C25_Witness ==
  /\ rpc = "handler"
  /\ Len(handled) = 1
  /\ handled[1].i = 1
  /\ missed = {}
  /\ pf[2].st = "ready"
  /\ GetTime(pf[2].env.event.timestamp) = GetTime(envelope.event.timestamp)

\* C26: the idle timer of the EventConsumer expires only while an inner consume
\* is outstanding; it does not expire between a delivery and the next call of
\* consume.
IdleTimerExpires ==
  /\ ec[1].timer # NoTimer
  /\ ec'[1].triggers = ec[1].triggers + 1
  /\ mpc' = mpc
  /\ aborted' = aborted

C26_IdleOnlyWhileConsuming ==
  [][IdleTimerExpires => mpc = "consuming"]_vars

\* C27: an EventConsumer whose topic delivers no event signals catch-up, and
\* not before catchUpDelayMs has passed since its first consume; hence
\* ReadModel.start on empty topics eventually resolves.
EmptyTopic(i) == logs[TopicOf(i)] = << >>

C27_IdleStep ==
  \A i \in Ingestors :
    (EmptyTopic(i) /\ ec'[i].calls > ec[i].calls) =>
      /\ ec[i].timer # NoTimer
      /\ now >= ec[i].timer
      /\ ec[i].timer >= CatchUpDelayMs

\* Catch-up, readiness and the presence of an event all persist once true.
C27_Settled ==
  /\ \A i \in Ingestors : ec[i].calls > 0 \/ ~EmptyTopic(i)
  /\ rmReady \/ \E i \in Ingestors : ~EmptyTopic(i)

C27_EmptyTopicsCatchUp ==
  /\ [][C27_IdleStep]_vars
  /\ <>C27_Settled

C27_Witness ==
  /\ rmReady
  /\ \A i \in Ingestors : EmptyTopic(i) /\ ec[i].calls = 1 /\ ec[i].triggers = 1
  /\ now >= CatchUpDelayMs

\* C27, for Migrator.run: a caller of EventType.producer whose migration reads
\* an empty source topic is eventually given its producer.
C27_RunResolves ==
  \A c \in Callers :
    (callers[c].st = "waiting") ~> (callers[c].st = "ready" \/ logs["src"] # << >>)

\* C28: once the signal has aborted, every EventConsumer has called onCatchUp,
\* or still has something pending that will call it: a consume in flight or
\* its idle timer.
C28_CancelSignalsCatchUp ==
  aborted =>
    \A i \in Ingestors :
      \/ ec[i].calls > 0
      \/ ec[i].timer # NoTimer
      \/ ec[i].listening

\* C29: the source offset never passes an event whose images are not all in
\* the destination topic; while the loop works on an event the event is not
\* acked; after a failure of transform or produce the envelope was nacked, the
\* offset stays at the failed event and the loop has stopped.
MigFailed == mpc \in {"failedEarly", "failedLate"}
Holding == mpc \in {"transform", "produce", "nack", "rethrow", "dispose"}

\* The images of the kth source event stand in the destination topic, together
\* and in the order of transform.
ImagesStand(k) ==
  LET images == ImagesOf(logs["src"][k])
  IN \E p \in 0 .. (Len(Migrated) - Len(images)) :
       \A n \in 1 .. Len(images) : Migrated[p + n] = images[n]

C29_Replicated ==
  /\ \A k \in 1 .. Offset :
       ~MigrationThrows(logs["src"][k].message) /\ ImagesStand(k)
  /\ Len(Migrated) >= Len(Concat([k \in 1 .. Offset |-> ImagesOf(logs["src"][k])]))
  /\ Holding =>
       /\ envelope.present
       /\ Offset < Len(logs["src"])
       /\ envelope.event.message = logs["src"][Offset + 1].message
       /\ MutexGranted(mutex[MigGroup], MigTask) \/ mpc = "rethrow"
  /\ mpc = "rethrow" => envelope.nacked
  /\ MigFailed =>
       /\ Offset < Len(logs["src"])
       /\ mutex[MigGroup].chain = << Leaked >>
       /\ Len(InProgress) < Len(ImagesOf(logs["src"][Offset + 1]))
            \/ MigrationThrows(logs["src"][Offset + 1].message)

C29_Stopped ==
  MigFailed => /\ mpc' = mpc
               /\ mutex' = mutex
               /\ envelope' = envelope
               /\ Migrated' = Migrated

C29_AckAfterOutputs == []C29_Replicated /\ [][C29_Stopped]_vars

\* The first event was replicated and acked; produce failed after the first of
\* the two outputs of the second.
C29_Witness ==
  /\ MigFailed
  /\ Offset = 1
  /\ Len(Migrated) = 3
  /\ Len(InProgress) = 1

\* C30: start calls clientFactory.onCatchUp at most once, and only after the
\* consumer of every ingestor has called its onCatchUp; start resolves only
\* after the call has completed.
C30_Step ==
  /\ (hook' = "running" /\ hook # "running") => hook = "none" /\ AllCaughtUp
  /\ hook # "none" => hook' # "none"
  /\ hook \in {"done", "failed"} => hook' = hook
  /\ (rmReady' /\ ~rmReady) => hook = "running" /\ hook' = "done"

C30_State ==
  /\ hook # "none" => \A i \in Ingestors : ec[i].calls = 1
  /\ rmReady <=> hook = "done"

C30_OnCatchUpOnceThenResolve == []C30_State /\ [][C30_Step]_vars

\* start has resolved although a handler is still running: the call of
\* onCatchUp came after both consumers' catch-up and before the resolution.
C30_Witness ==
  /\ rmReady
  /\ hook = "done"
  /\ rpc = "handler"
  /\ \A i \in Ingestors : ec[i].calls = 1

----------------------------------------------------------------------------
(* Failure of a read-model handler *)

\* C31: after a handler of a read model has thrown, the failing envelope is
\* nacked (its guard is not released and the offset of the group stays below
\* the failed event), the ingestion loop has stopped, and no later event of
\* that topic is passed to the handler: every event of the topic that was
\* handled precedes the failed one.
C31_FailureStopsIngestion ==
  \A p \in 1 .. Len(handled) :
    handled[p].st = "failed" =>
      /\ rpc \in {"nack", "rethrow", "failed", "failedEarly"}
      /\ rpc # "nack" => /\ envelope = NoEnvelope \/ envelope.nacked
                         /\ Head(mutex[GroupOf(handled[p].i)].chain) = Leaked
      /\ RmOffset(handled[p].i) = handled[p].message - 1
      /\ \A q \in 1 .. Len(handled) :
           (q # p /\ handled[q].i = handled[p].i) =>
             /\ q < p
             /\ handled[q].st = "ok"
             /\ handled[q].message < handled[p].message

\* The loop has ended on the failure of an event that was taken after an
\* event of the other topic was handled; a later event of the failed topic
\* is in the log and was never passed to the handler.
C31_Witness ==
  /\ rpc \in {"failed", "failedEarly"}
  /\ \E p, q \in 1 .. Len(handled) :
       /\ handled[p].st = "failed"
       /\ handled[q].st = "ok"
       /\ Len(logs[TopicOf(handled[p].i)]) > handled[p].message

----------------------------------------------------------------------------
(* Properties of record validation *)

Plain(value) == value.kind = "object" /\ value.proto = "plain"
Declared(spec, name) == \E k \in 1 .. Len(spec.names) : spec.names[k] = name
Present(value, name) == \E k \in 1 .. Len(value.keys) : value.keys[k] = StringKey(name)

\* What a field schema admits: a value of its type, or null when it is optional
Admits(spec, value) ==
  LET type == IF spec.type = "Optional" THEN spec.spec[1].type ELSE spec.type
  IN \/ spec.type = "Optional" /\ value.kind = "null"
     \/ type = "String" /\ value.kind = "string"
     \/ type = "Number" /\ value.kind = "number"

\* The k-th own key of the value is a declared field and its value validates
FieldValid(spec, value, k) ==
  /\ ~value.keys[k].symbol
  /\ Declared(spec, value.keys[k].name)
  /\ Admits(FieldOf(spec, value.keys[k].name), value.values[k])

\* The offending keys in key order, the missing required fields in
\* declaration order.
InvalidKeys(spec, value) ==
  SelectSeq([k \in 1 .. Len(value.keys) |-> k],
            LAMBDA k : ~FieldValid(spec, value, k))
MissingFields(spec, value) ==
  SelectSeq(spec.names,
            LAMBDA n : FieldOf(spec, n).type # "Optional" /\ ~Present(value, n))

\* The list of violations: of the keys, then of the missing fields
IsViolationList(errors, spec, value) ==
  LET invalid == InvalidKeys(spec, value)
      missing == MissingFields(spec, value)
  IN /\ Len(errors) = Len(invalid) + Len(missing)
     /\ \A j \in 1 .. Len(invalid) :
          /\ errors[j].message
               = "has invalid \"" \o value.keys[invalid[j]].name \o "\" field"
          /\ Len(errors[j].cause) = 1
     /\ \A j \in 1 .. Len(missing) :
          errors[Len(invalid) + j]
            = AssertionError("is missing required \"" \o missing[j] \o "\" field", << >>)

\* C32: record validation accepts exactly the plain keyed records whose
\* every own key is a declared field with a valid value and that have every
\* non-optional declared field (an optional field may be absent or null);
\* with two or more violations it throws one error whose cause list holds the
\* violations of the present keys in key order, then the missing required
\* fields in declaration order; with one violation it throws that violation.
C32_RecordValidation ==
  res # NotAsserted =>
    LET spec == arg.spec
        value == arg.value
        thrown == res.thrown
    IN IF ~Plain(value) THEN Len(thrown) = 1 /\ thrown[1].cause = << >>
       ELSE LET count == Len(InvalidKeys(spec, value)) + Len(MissingFields(spec, value))
            IN /\ thrown = << >> <=> count = 0
               /\ thrown = << >> <=>
                    /\ \A k \in 1 .. Len(value.keys) : FieldValid(spec, value, k)
                    /\ \A k \in 1 .. Len(spec.names) :
                         spec.spec[k].type # "Optional" => Present(value, spec.names[k])
               /\ count = 1 => IsViolationList(thrown, spec, value)
               /\ count >= 2 =>
                    /\ Len(thrown) = 1
                    /\ IsViolationList(thrown[1].cause, spec, value)

\* A value with two offending keys and a missing required field was
\* validated: the error lists the three violations.
C32_Witness ==
  /\ res # NotAsserted
  /\ Plain(arg.value)
  /\ Len(InvalidKeys(arg.spec, arg.value)) = 2
  /\ Len(MissingFields(arg.spec, arg.value)) >= 1
  /\ Len(res.thrown[1].cause) >= 3

\* C33: for an event whose id has the Number schema the derived key is the
\* 8-byte encoding of the id as a float64: it is 8 bytes long, and another id
\* has another key.
C33_NumberKey ==
  (/\ res.last.made
   /\ res.last.error = "none"
   /\ arg.idSpec = "Number"
   /\ ~Truthy(res.last.key)) =>
    LET k == logs["T"][Len(logs["T"])].key
    IN /\ k.kind = "bytes"
       /\ Len(k.val) = 8
       /\ \A other \in IdValues :
            (other.kind = "number" /\ other # res.last.id) =>
              ProducerKeyer(arg.idSpec, other) # k

----------------------------------------------------------------------------
(* The prefetch of an ingestor *)

\* How often a task stands in the chain of a mutex
Waiting(m, task) == Cardinality({k \in 1 .. Len(m.chain) : m.chain[k] = task})

\* An ingestor has one consume of its group at most, awaited or holding the
\* envelope it delivered, and no event was handed to the handler twice.
C34_State ==
  /\ \A i \in Ingestors :
       /\ Waiting(mutex[GroupOf(i)], i) <= 1
       /\ pf[i].st = "pending" => Waiting(mutex[GroupOf(i)], i) = 1
       /\ pf[i].st = "ready" =>
            /\ MutexGranted(mutex[GroupOf(i)], i)
            /\ pf[i].env.event.message = RmOffset(i) + 1
  /\ \A p, q \in 1 .. Len(handled) :
       (handled[p].i = handled[q].i /\ handled[p].message = handled[q].message)
         => p = q

\* A pending prefetch changes only by becoming ready; the timeout of a peek
\* leaves the prefetch and the consume as they are; a ready prefetch changes
\* only by take handing its envelope to the handler, and the handler is
\* called with nothing but the envelope of a ready prefetch.
C34_Step ==
  /\ \A i \in Ingestors :
       /\ (pf[i].st = "pending" /\ pf'[i] # pf[i]) => pf'[i].st = "ready"
       /\ (rpc = "peeking" /\ rpc' = "peeking"
             /\ peeks[i] = "pending" /\ peeks'[i] = "none") =>
            /\ pf' = pf
            /\ mutex' = mutex
            /\ ec' = ec
       /\ (pf[i].st = "ready" /\ pf'[i] # pf[i]) =>
            /\ pf'[i] = NoPrefetch
            /\ envelope' = pf[i].env
            /\ Len(handled') = Len(handled) + 1
            /\ handled'[Len(handled')].i = i
            /\ handled'[Len(handled')].message = pf[i].env.event.message
  /\ Len(handled') > Len(handled) =>
       \E i \in Ingestors : pf[i].st = "ready" /\ pf'[i] = NoPrefetch

\* C34: an ingestor has at most one inner consume outstanding; a peek that
\* times out neither cancels nor discards the prefetch; an envelope obtained
\* by a prefetch is handed to the handler by a later take, once, and is
\* neither dropped nor ingested twice.
C34_PrefetchKept == []C34_State /\ [][C34_Step]_vars

\* The peek of an ingestor timed out while its consume was pending, the
\* envelope arrived later and was handed to the handler by a take.
C34_Witness ==
  \E p \in 1 .. Len(handled) :
    /\ handled[p].i \in missed
    /\ handled[p].st = "ok"
    /\ \E q \in 1 .. Len(handled) : q < p /\ handled[q].i # handled[p].i

\* C35: disposing one EventProducer does not stop the replication another
\* live EventProducer depends on: while some returned producer is not
\* disposed, the loop of the migrator of its chain has not been left.
C35_LiveProducerKeepsReplication ==
  (\E c \in Callers : callers[c].st = "ready") => mpc # "exited"

----------------------------------------------------------------------------
(* Properties of cooperating migrators *)

Working(k) == res.pc[k] \in {"transform", "produce", "dispose"}

\* The images written so far by the migrator that holds an envelope
CoopInProgress(k) ==
  IF res.pc[k] \in {"produce", "dispose"}
  THEN LET raw == logs["src"][mutex[CoopGroup.name].state + 1]
       IN Prefix(ImagesOf(raw),
                 Len(Migration(raw.message)) - Len(res.outputs[k]))
  ELSE << >>

\* C36: two migrators of the same pair of topics running together join the
\* same consumer group (one consumer, one offset, at most one of them holding
\* an envelope), and the destination topic holds the images of the source
\* events consumed so far once each and in source order, followed by the
\* images written for the event in work; the offset only passes an event
\* whose images are all written.
C36_CooperatingMigrators ==
  /\ DOMAIN mutex \subseteq {CoopGroup.name}
  /\ \A j, k \in Migrators : (Working(j) /\ Working(k)) => j = k
  /\ (\E k \in Migrators : res.pc[k] # "idle") =>
       LET offset == mutex[CoopGroup.name].state
       IN /\ \A k \in Migrators :
               Working(k) =>
                 /\ MutexGranted(mutex[CoopGroup.name], k)
                 /\ res.envelope[k].event.message = logs["src"][offset + 1].message
          /\ offset = res.disposed[1] + res.disposed[2]
          /\ logs["dst"]
               = Concat([i \in 1 .. offset |-> ImagesOf(logs["src"][i])])
                   \o Concat([k \in Migrators |-> CoopInProgress(k)])

\* Each of the two migrators has replicated a source event with two images,
\* and the destination holds the four images.
C36_Witness ==
  /\ res.disposed[1] >= 1
  /\ res.disposed[2] >= 1
  /\ Len(logs["dst"]) = 4

----------------------------------------------------------------------------
(* Properties of InMemoryMutex *)

Held(g) == res.guards[g].st = "held"
Granted(g) == res.guards[g].st # "waiting"

\* At most one guard is held; the guards are granted in the order of the
\* calls of get; a granted guard saw the state the guard before it left when
\* it was released (the first one the initial state).
C37_State ==
  /\ \A g, h \in 1 .. Len(res.guards) : (Held(g) /\ Held(h)) => g = h
  /\ \A g, h \in 1 .. Len(res.guards) :
       (g < h /\ Granted(h)) => res.guards[g].st = "released"
  /\ \A g \in 1 .. Len(res.guards) :
       Granted(g) =>
         res.guards[g].seen
           = IF g = 1 THEN arg.initialState ELSE res.guards[g - 1].left

\* A get resolves in no step in which a guard is held, and not before every
\* earlier guard is released.
C37_Step ==
  \A g \in 1 .. Len(res.guards) :
    (~Granted(g) /\ res'.guards[g].st = "held") =>
      /\ \A h \in 1 .. Len(res.guards) : ~Held(h)
      /\ \A h \in 1 .. (g - 1) : res.guards[h].st = "released"

\* C37: InMemoryMutex grants its guards one at a time in the order of the
\* requests: at most one guard is held, a get made while a guard is held
\* resolves only after the release of that guard, and each guard sees the
\* state that the guard released before it left.
C37_MutexFifo == []C37_State /\ [][C37_Step]_vars

\* Three gets were made while the first guard was held; the third guard is
\* held after the two before it were released with changed states.
C37_Witness ==
  /\ Len(res.guards) = 3
  /\ Held(3)
  /\ res.guards[1].left # arg.initialState
  /\ res.guards[2].left # res.guards[1].left
  /\ res.guards[3].seen = res.guards[2].left

\* C38: the type addFields returns, the destination of the migrator it
\* appends, has a topic name other than that of the type it was called on.
C38_DestinationTopicDiffers ==
  Derived => res.derived.topic # TopicName(arg)

\* C39: a message buffered while a consume is waiting wakes that consume: no
\* consume stays in its wait, its resumer not called, while the buffer holds
\* a message.
C39_BufferedMessageWakes ==
  (res.pc = "waiting" /\ res.buffer # << >>) => res.mine \in res.resolved

\* C40: two read models whose ingestors are bound to event types of
\* different topic names have different namespaces, and the client of a
\* namespace holds what was projected from one topic only.
C40_NamespacePerTopic ==
  /\ (/\ res.started = {1, 2}
      /\ NsTopicName(arg[1].ingestors[1].eventType)
           # NsTopicName(arg[2].ingestors[1].eventType))
       => Namespace(arg[1]) # Namespace(arg[2])
  /\ \A ns \in DOMAIN res.clients :
       \A j, k \in 1 .. Len(res.clients[ns]) :
         res.clients[ns][j].topic = res.clients[ns][k].topic

====
